---- MODULE Spec2Model ----
(***************************************************************************)
(* State-machine model of the JLRP storefront service: the return/refund   *)
(* router, the payment router, the auth/token helpers, the password        *)
(* hashing paths and the product catalogue.  Each HTTP handler is one      *)
(* action; the collections of the document database are the variables.     *)
(***************************************************************************)
EXTENDS Integers, Sequences, FiniteSets, TLC

VARIABLES
    orders,           \* db["orders"]: order id -> order document
    return_requests,  \* db["return_requests"]: sequence of documents, _id = index
    refunds,          \* refunds the payment gateway has executed
    gwRefundCalls,    \* number of client.payment.refund invocations so far
    tasks,            \* background tasks scheduled with background_tasks.add_task
    gwOrders,         \* orders the payment gateway has created (order.create)
    payments,         \* db["payments"]: sequence of payment records
    users,            \* db["users"]: sequence of user documents
    now,              \* the wall clock, seconds since the epoch (UTC)
    issued,           \* access tokens the login handlers have handed out
    stale,            \* issued tokens whose subject's password was reset since
    nextJti,          \* number of the next refresh-token jti (uuid4)
    nextReset,        \* number of the next reset token (secrets.token_urlsafe)
    products,         \* db["products"]: sequence of product documents
    inflight,         \* handler -> the call it is suspended in (at an await), if any
    attempts,         \* background tasks run so far: index into tasks, and how the run ended
    resp              \* the last handler call and its HTTP response

retVars == <<return_requests, refunds, gwRefundCalls, tasks>>
payVars == <<gwOrders, payments>>
authVars == <<users, now, issued, stale, nextJti, nextReset>>
prodVars == <<products>>
callVars == <<inflight, attempts>>

vars == <<orders, retVars, payVars, authVars, prodVars, callVars, resp>>

\* ---------------------------------------------------------------- bounds
MaxReturns == 1
MaxRefundCalls == 2
MaxGwOrders == 2
MaxPayments == 1

\* ------------------------------------------------------------- constants
NONE == "NONE"          \* Python None in a string-valued field
NoId == 0               \* Python None in an id-valued field

\* the requests that can be in progress at the same time
Handlers == {"h1", "h2"}
NoCall == [call |-> "none", stage |-> "none"]
NoCalls == [h \in Handlers |-> NoCall]

\* collections a service does not touch stay as an empty database has them
IdleAuth ==
    /\ users = << >>
    /\ now = 0
    /\ issued = {}
    /\ stale = {}
    /\ nextJti = 1
    /\ nextReset = 1

IdleProducts == products = << >>

\* ---------------------------------------------------------------------
\* Shared helpers
\* ---------------------------------------------------------------------
RECURSIVE Pow2(_)
Pow2(n) == IF n <= 0 THEN 1 ELSE 2 * Pow2(n - 1)

RECURSIVE Pow2Mod100(_)
Pow2Mod100(n) == IF n <= 0 THEN 1 ELSE (2 * Pow2Mod100(n - 1)) % 100

RECURSIVE BitLen(_)
BitLen(n) == IF n <= 0 THEN 0 ELSE 1 + BitLen(n \div 2)

\* floor(log2(c/100)) for c >= 1 hundredths
RECURSIVE Log2Up(_, _)
Log2Up(c, a) == IF Pow2(a + 1) * 100 <= c THEN Log2Up(c, a + 1) ELSE a
RECURSIVE Log2Down(_, _)
Log2Down(c, a) == IF c * Pow2(a) < 100 THEN Log2Down(c, a + 1) ELSE a
FloorLog2(c) == IF c >= 100 THEN Log2Up(c, 0) ELSE 0 - Log2Down(c, 0)

\* A price is carried as its number of hundredths c (the decimal c/100).
\* float(price) * 100 in IEEE-754 binary64, round-to-nearest-even:
\*   float(c/100) = m / 2^k with m = RNE(c * 2^k / 100), k = 52 - floor(log2(c/100)),
\*   so 100 * m = c * 2^k + t with t = -r or 100 - r, r = (c * 2^k) mod 100;
\*   the product is then rounded to 53 bits, dropping s low bits.
\* The result is the integer c, or the double just below / above it:
\* dir = -1, 0, 1.
FloatTimes100(c) ==
    IF c <= 0 THEN [int |-> c, dir |-> 0]
    ELSE LET k == 52 - FloorLog2(c)
             r == ((c % 100) * Pow2Mod100(k)) % 100
             L == BitLen(c) + k
             isPow2 == Pow2(BitLen(c) - 1) = c
         IN  IF r = 0 THEN [int |-> c, dir |-> 0]
             ELSE IF r < 50
                  THEN LET s == (IF isPow2 THEN L - 1 ELSE L) - 53
                       IN  [int |-> c, dir |-> IF r > Pow2(s - 1) THEN 0 - 1 ELSE 0]
                  ELSE LET s == L - 53
                       IN  [int |-> c, dir |-> IF 100 - r > Pow2(s - 1) THEN 1 ELSE 0]

\* int(x): truncation toward zero of a non-negative double
IntTrunc(x) == IF x.dir < 0 THEN x.int - 1 ELSE x.int
\* round(x): nearest integer
IntRound(x) == x.int

\* ---------------------------------------------------------------------
\* Return / refund service (backend/app/routers/return_requests.py)
\* ---------------------------------------------------------------------
CustomerEmail == "customer@example.com"
OtherEmail == "other@example.com"
AdminEmail == "admin@example.com"

\* what get_current_user can hand to a handler: a customer or an admin
CurrentUsers ==
    { [email |-> CustomerEmail, is_admin |-> FALSE],
      [email |-> OtherEmail, is_admin |-> FALSE],
      [email |-> AdminEmail, is_admin |-> TRUE] }

ProductIds == {"P12345", "P2", "P3"}
OrderIds == {"o1"}
OrderIdInputs == OrderIds \cup {"missing"}

\* line items; price in hundredths of a rupee (499 rupees = 49900)
ItemLists ==
    { << [product_id |-> "P12345", price |-> 49900] >>,
      << [product_id |-> "P12345", price |-> 1999], [product_id |-> "P2", price |-> 0] >>,
      << [product_id |-> "P2", price |-> 29], [product_id |-> "P2", price |-> 49900] >> }

\* order documents as the seeding script writes them, in the variations the
\* handlers distinguish
SeedOrder(customer_email, status, items, payment_id) ==
    [ email |-> NONE, customer_email |-> customer_email, status |-> status,
      items |-> items, amount |-> 0, razorpay_order_id |-> NoId,
      razorpay_payment_id |-> payment_id, tracking_url |-> NONE,
      tracking_id |-> NONE, courier_name |-> NONE ]

BaseItems == << [product_id |-> "P12345", price |-> 49900] >>

SeedOrders ==
    { SeedOrder(CustomerEmail, "delivered", il, "pay_test_1234567890") : il \in ItemLists }
    \cup { SeedOrder(OtherEmail, "delivered", BaseItems, "pay_test_1234567890"),
           SeedOrder(CustomerEmail, "PAID", BaseItems, "pay_test_1234567890"),
           SeedOrder(CustomerEmail, "delivered", BaseItems, NONE) }

\* for item in order["items"]: if product_id matches: int(float(price) * 100); break
RECURSIVE RefundAmountPaise(_, _)
RefundAmountPaise(items, product_id) ==
    IF items = << >> THEN 0
    ELSE IF Head(items).product_id = product_id
         THEN IntTrunc(FloatTimes100(Head(items).price))
         ELSE RefundAmountPaise(Tail(items), product_id)

HasItem(items, product_id) ==
    \E i \in DOMAIN items : items[i].product_id = product_id

ReturnResp(order_id, product_id, user, code, detail, amount) ==
    [ op |-> "create_return_request", order_id |-> order_id, product_id |-> product_id,
      email |-> user.email, code |-> code, detail |-> detail, refund_amount |-> amount ]

\* order.get("customer_email") == current_user.get("email")
OrderBelongsToUserMut(order, current_user) == TRUE
OrderBelongsToUser(order, current_user) == order.customer_email = current_user.email

create_return_request(order_id, product_id, current_user) ==
    LET Fail(code, detail) ==
            /\ resp' = ReturnResp(order_id, product_id, current_user, code, detail, 0)
            /\ UNCHANGED <<callVars, authVars, prodVars, orders, retVars, payVars>>
    IN
    IF order_id \notin DOMAIN orders
    THEN Fail(404, "Order not found")
    ELSE LET order == orders[order_id]
             refund_amount_paise == RefundAmountPaise(order.items, product_id)
         IN  IF ~OrderBelongsToUser(order, current_user)
             THEN Fail(403, "Order does not belong to user")
             ELSE IF order.status # "delivered"
             THEN Fail(400, "Order not delivered yet; cannot return")
             ELSE IF refund_amount_paise = 0
             THEN Fail(400, "Product not found in order or price is zero")
             ELSE /\ return_requests' = Append(return_requests,
                        [ order_id |-> order_id,
                          product_id |-> product_id,
                          customer_email |-> current_user.email,
                          status |-> "pending",
                          refund_amount |-> refund_amount_paise,
                          razorpay_payment_id |-> order.razorpay_payment_id,
                          razorpay_refund_id |-> NoId ])
                  /\ resp' = ReturnResp(order_id, product_id, current_user, 201, "created",
                                        refund_amount_paise)
                  /\ UNCHANGED <<callVars, authVars, prodVars, orders, refunds, gwRefundCalls, tasks, payVars>>

\* admin_action: the status check that guards the refund
AlreadyProcessedMut(req) == req.status = "approved"
AlreadyProcessed(req) == req.status \in {"refunded", "approved"}
Rejectable(req) == req.status \in {"pending", "pickup-scheduled"}

AdminResp(action, request_id, admin_user, gateway, code, detail, refund_id) ==
    [ op |-> "admin_action", action |-> action, request_id |-> request_id,
      by_admin |-> admin_user.is_admin, gateway |-> gateway,
      code |-> code, detail |-> detail, refund_id |-> refund_id ]

\* what call_razorpay_refund meets: the refund is executed, the SDK call
\* fails, or no client is configured
GatewayOutcomes == {"ok", "error", "unconfigured"}

\* call_razorpay_refund raised (client missing, or the SDK call failed)
CallRaisedMut(outcome) == FALSE
CallRaised(outcome) == outcome # "ok"

admin_action(request_id, action, admin_user, outcome) ==
    LET Fail(code, detail) ==
            /\ resp' = AdminResp(action, request_id, admin_user, "not_called", code, detail, NoId)
            /\ UNCHANGED <<callVars, authVars, prodVars, orders, retVars, payVars>>
    IN
    IF ~admin_user.is_admin
    THEN Fail(403, "Admin required")
    ELSE IF request_id \notin DOMAIN return_requests
    THEN Fail(404, "Return request not found")
    ELSE LET req == return_requests[request_id] IN
      IF action = "approve" THEN
        IF AlreadyProcessed(req)
        THEN Fail(400, "Already processed")
        ELSE IF req.razorpay_payment_id = NONE \/ req.refund_amount = 0
        THEN Fail(400, "Payment id or amount missing; cannot refund")
        ELSE \* call_razorpay_refund: the gateway executes the refund, or the call raises
             /\ outcome # "unconfigured" => gwRefundCalls < MaxRefundCalls
             /\ gwRefundCalls' = IF outcome = "unconfigured" THEN gwRefundCalls
                                 ELSE gwRefundCalls + 1
             /\ refunds' = IF outcome = "ok"
                           THEN Append(refunds,
                                  [ id |-> Len(refunds) + 1,
                                    payment_id |-> req.razorpay_payment_id,
                                    amount |-> req.refund_amount ])
                           ELSE refunds
             /\ IF CallRaised(outcome)
                THEN /\ resp' = AdminResp(action, request_id, admin_user, outcome, 500,
                                          "Refund failed", NoId)
                     /\ UNCHANGED <<callVars, authVars, prodVars, orders, return_requests, tasks, payVars>>
                ELSE LET refund_id == IF outcome = "ok" THEN Len(refunds) + 1 ELSE NoId IN
                     /\ return_requests' = [return_requests EXCEPT ![request_id] =
                            [@ EXCEPT !.status = "refunded", !.razorpay_refund_id = refund_id]]
                     /\ tasks' = Append(tasks,
                            [ task |-> "send_refund_email", to |-> req.customer_email,
                              request_id |-> request_id ])
                     /\ resp' = AdminResp(action, request_id, admin_user, outcome, 200, "ok",
                                          refund_id)
                     /\ UNCHANGED <<callVars, authVars, prodVars, orders, payVars>>
      ELSE IF action = "reject" THEN
        IF ~Rejectable(req)
        THEN Fail(400, "Cannot reject processed request")
        ELSE /\ return_requests' = [return_requests EXCEPT ![request_id].status = "rejected"]
             /\ tasks' = Append(tasks,
                    [ task |-> "send_rejection_email", to |-> req.customer_email,
                      request_id |-> request_id ])
             /\ resp' = AdminResp(action, request_id, admin_user, "not_called", 200, "ok", NoId)
             /\ UNCHANGED <<callVars, authVars, prodVars, orders, refunds, gwRefundCalls, payVars>>
      ELSE Fail(400, "Unknown action")

CreateReturn ==
    \E o \in OrderIdInputs, p \in ProductIds, u \in CurrentUsers :
        /\ create_return_request(o, p, u)
        /\ Len(return_requests') <= MaxReturns

\* callers of the admin endpoint: the customer stub and an admin
AdminCallers == {u \in CurrentUsers : u.email # OtherEmail}

AdminAct ==
    \E i \in 1..(MaxReturns + 1), a \in {"approve", "reject", "refund"}, u \in AdminCallers :
        \E out \in (IF a = "approve" THEN GatewayOutcomes ELSE {"ok"}) :
            admin_action(i, a, u, out)

NoResp == [op |-> "none", code |-> 0]

InitReturns ==
    /\ orders \in [OrderIds -> SeedOrders]
    /\ inflight = NoCalls
    /\ attempts = << >>
    /\ return_requests = << >>
    /\ refunds = << >>
    /\ gwRefundCalls = 0
    /\ tasks = << >>
    /\ gwOrders = << >>
    /\ payments = << >>
    /\ IdleAuth
    /\ IdleProducts
    /\ resp = NoResp

NextReturns == CreateReturn \/ AdminAct

SpecReturns == InitReturns /\ [][NextReturns]_vars


\* ---------------------------------------------------------------------
\* Claims about the return / refund service
\* ---------------------------------------------------------------------
AdminStep(act) ==
    /\ resp'.op = "admin_action"
    /\ resp'.by_admin
    /\ resp'.action = act
    /\ resp'.request_id \in DOMAIN return_requests

\* C1: the first successful admin approve of a return request sets it to
\* refunded and stores the refund id the gateway issued; an approve on a
\* refunded request is answered 400 "Already processed" and makes no gateway
\* call; a reject on a refunded request is answered 400 and leaves it refunded.
C1_ApproveOnce ==
    [][ /\ (AdminStep("approve") /\ resp'.code = 200) =>
            LET before == return_requests[resp'.request_id]
                after == return_requests'[resp'.request_id]
            IN  /\ before.status # "refunded"
                /\ after.status = "refunded"
                /\ Len(refunds') = Len(refunds) + 1
                /\ after.razorpay_refund_id = refunds'[Len(refunds')].id
                /\ after.razorpay_refund_id # NoId
        /\ (AdminStep("approve") /\ return_requests[resp'.request_id].status = "refunded") =>
                /\ resp'.code = 400
                /\ resp'.detail = "Already processed"
                /\ gwRefundCalls' = gwRefundCalls
                /\ refunds' = refunds
                /\ return_requests' = return_requests
        /\ (AdminStep("reject") /\ return_requests[resp'.request_id].status = "refunded") =>
                /\ resp'.code = 400
                /\ return_requests' = return_requests
      ]_vars

\* a second approve was refused on a request that the first approve refunded
C1_Witness ==
    /\ resp.op = "admin_action"
    /\ resp.by_admin
    /\ resp.action = "approve"
    /\ resp.detail = "Already processed"
    /\ resp.request_id \in DOMAIN return_requests
    /\ return_requests[resp.request_id].status = "refunded"
    /\ return_requests[resp.request_id].razorpay_refund_id # NoId

\* C6: a return request for product X on a delivered order of the requester
\* whose line item for X has price P is stored pending with
\* refund_amount = round(P * 100); with no line item for X it is refused
\* and nothing is stored.
FirstPrice(items, product_id) ==
    LET i == CHOOSE j \in DOMAIN items :
                 /\ items[j].product_id = product_id
                 /\ \A k \in 1..(j - 1) : items[k].product_id # product_id
    IN  items[i].price

C6_RefundAmountRounded ==
    [][ ( /\ resp'.op = "create_return_request"
          /\ resp'.order_id \in DOMAIN orders
          /\ orders[resp'.order_id].customer_email = resp'.email
          /\ orders[resp'.order_id].status = "delivered" ) =>
        LET items == orders[resp'.order_id].items
            X == resp'.product_id
        IN  IF HasItem(items, X)
            THEN /\ resp'.code = 201
                 /\ Len(return_requests') = Len(return_requests) + 1
                 /\ return_requests'[Len(return_requests')].status = "pending"
                 /\ return_requests'[Len(return_requests')].refund_amount
                        = IntRound(FloatTimes100(FirstPrice(items, X)))
            ELSE /\ resp'.code = 400
                 /\ return_requests' = return_requests
      ]_vars

\* C10: when the gateway refund call fails during an approve, the answer is
\* 500, the return request keeps its status and has no refund id recorded,
\* no notification is scheduled, and an approve retried after the failure
\* is not refused as already processed.
C10_RefundFailureKeepsState ==
    [][ /\ (AdminStep("approve") /\ resp'.gateway \in {"error", "unconfigured"}) =>
                /\ resp'.code = 500
                /\ return_requests' = return_requests
                /\ return_requests'[resp'.request_id].razorpay_refund_id = NoId
                /\ ~AlreadyProcessed(return_requests'[resp'.request_id])
                /\ tasks' = tasks
                /\ refunds' = refunds
        /\ ( /\ resp.op = "admin_action" /\ resp.action = "approve"
             /\ resp.gateway \in {"error", "unconfigured"}
             /\ AdminStep("approve") /\ resp'.request_id = resp.request_id ) =>
                /\ resp'.gateway # "not_called"
                /\ resp'.gateway = "ok" => resp'.code = 200
      ]_vars

\* an approve went through after an earlier gateway failure on the same request
C10_Witness ==
    /\ resp.op = "admin_action" /\ resp.action = "approve" /\ resp.code = 200
    /\ Len(return_requests) = 1
    /\ gwRefundCalls >= 2
    /\ Len(refunds) = 1
    /\ return_requests[1].status = "refunded"

\* ---------------------------------------------------------------------
\* Payment router: frontend/app/routers/payment_router.py (creates and
\* updates orders) and backend/app/routers/payment_router.py (gateway only)
\* ---------------------------------------------------------------------
EmptyOrders == [o \in {} |-> 0]

\* OrderDB(...).dict(by_alias=True) carries "_id": None and insert_one keeps an
\* _id key that is present, so the order is stored under the null _id; the
\* client is handed str(result.inserted_id)
NullId == "<null>"
StrNone == "None"

\* amounts a client can post, in hundredths of a rupee
AmountInputs == {0 - 100, 0, 49900, 1999}
\* amounts a client can post to the backend router: whole rupees
RupeeInputs == {0 - 1, 0, 499}

PaymentIds == {"pay_A"}

\* razorpay's signature over (order id, payment id) under the key secret
Sign(order_id, payment_id) == <<"hmac", order_id, payment_id>>
Forged == <<"hmac", NoId, "forged">>

\* utility.verify_payment_signature: raises SignatureVerificationError on mismatch
SignatureOkMut(order_id, payment_id, signature) == TRUE
SignatureOk(order_id, payment_id, signature) == signature = Sign(order_id, payment_id)

\* update_one({"razorpay_order_id": id}, {"$set": ...}) changes the first match
MatchingOrders(id) == {o \in DOMAIN orders : orders[o].razorpay_order_id = id}
FirstMatch(id) == CHOOSE o \in MatchingOrders(id) : TRUE

CreateResp(app, amount, code, gw_amount, db_order_id) ==
    [ op |-> "create_order", app |-> app, amount |-> amount, code |-> code,
      gw_amount |-> gw_amount, db_order_id |-> db_order_id ]

\* rupees -> paise as each router computes it
PaiseFrontendMut(amount) == IntTrunc(FloatTimes100(amount))
PaiseFrontend(amount) == IntRound(FloatTimes100(amount))
PaiseBackend(amount_rupees) == amount_rupees * 100

\* the amount check that precedes the gateway call
AmountRejectedMut(amount) == amount < 0
AmountRejected(amount) == amount <= 0

\* frontend create_order; amount in hundredths of a rupee (payload.amount is a float)
\* gw: the gateway creates the order, or order.create raises
create_order(email, items, amount, gw) ==
    IF AmountRejected(amount)
    THEN /\ resp' = CreateResp("frontend", amount, 400, 0, NONE)
         /\ UNCHANGED <<callVars, authVars, prodVars, orders, retVars, payVars>>
    ELSE LET paise == PaiseFrontend(amount)
             rz_id == Len(gwOrders) + 1
             db_id == NullId
         IN  IF gw # "ok"
             THEN /\ resp' = CreateResp("frontend", amount, 500, paise, NONE)
                  /\ UNCHANGED <<callVars, authVars, prodVars, orders, retVars, payVars>>
             ELSE /\ Len(gwOrders) < MaxGwOrders
                  /\ gwOrders' = Append(gwOrders, [id |-> rz_id, amount |-> paise])
                  /\ IF db_id \in DOMAIN orders
                     THEN \* DuplicateKeyError on _id, caught and logged
                          /\ orders' = orders
                          /\ resp' = CreateResp("frontend", amount, 200, paise, NONE)
                     ELSE /\ orders' = [o \in DOMAIN orders \cup {db_id} |->
                                IF o = db_id
                                THEN [ email |-> email, customer_email |-> NONE,
                                       status |-> "PENDING_PAYMENT", items |-> items,
                                       amount |-> amount, razorpay_order_id |-> rz_id,
                                       razorpay_payment_id |-> NONE, tracking_url |-> NONE,
                                       tracking_id |-> NONE, courier_name |-> NONE ]
                                ELSE orders[o]]
                          /\ resp' = CreateResp("frontend", amount, 200, paise, StrNone)
                  /\ UNCHANGED <<callVars, authVars, prodVars, retVars, payments>>

\* backend create_order; amount in whole rupees (payload.amount is an int)
create_order_backend(amount_rupees, gw) ==
    IF AmountRejected(amount_rupees)
    THEN /\ resp' = CreateResp("backend", amount_rupees * 100, 400, 0, NONE)
         /\ UNCHANGED <<callVars, authVars, prodVars, orders, retVars, payVars>>
    ELSE LET paise == PaiseBackend(amount_rupees) IN
         IF gw # "ok"
         THEN /\ resp' = CreateResp("backend", amount_rupees * 100, 500, paise, NONE)
              /\ UNCHANGED <<callVars, authVars, prodVars, orders, retVars, payVars>>
         ELSE /\ Len(gwOrders) < MaxGwOrders
              /\ gwOrders' = Append(gwOrders, [id |-> Len(gwOrders) + 1, amount |-> paise])
              /\ resp' = CreateResp("backend", amount_rupees * 100, 200, paise, NONE)
              /\ UNCHANGED <<callVars, authVars, prodVars, orders, retVars, payments>>

VerifyResp(app, order_id, payment_id, signature, db, code) ==
    [ op |-> "verify_payment", app |-> app, razorpay_order_id |-> order_id,
      razorpay_payment_id |-> payment_id, signature |-> signature, db |-> db,
      code |-> code ]

SetStatus(id, status, payment_id) ==
    IF MatchingOrders(id) = {} THEN orders
    ELSE [orders EXCEPT ![FirstMatch(id)] =
            [@ EXCEPT !.status = status,
                      !.razorpay_payment_id = IF payment_id = NONE THEN @ ELSE payment_id]]

PaymentRecord(order_id, payment_id, signature) ==
    [order_id |-> order_id, payment_id |-> payment_id, signature |-> signature]

\* what the handler's database writes meet: app.state.db is missing, the
\* orders update raises, the payments insert raises, or both go through
DbOutcomes == {"ok", "unset", "update_failed", "insert_failed"}

\* the orders update_one is executed
OrderWritten(db) == db \in {"ok", "insert_failed"}
\* the payments insert_one is executed
PaymentWritten(db) == db = "ok"

\* frontend verify_payment; a failing write is logged and swallowed
verify_payment(order_id, payment_id, signature, db) ==
    IF ~SignatureOk(order_id, payment_id, signature)
    THEN /\ orders' = IF OrderWritten(db) THEN SetStatus(order_id, "FAILED", NONE) ELSE orders
         /\ resp' = VerifyResp("frontend", order_id, payment_id, signature, db, 400)
         /\ UNCHANGED <<callVars, authVars, prodVars, retVars, payVars>>
    ELSE /\ PaymentWritten(db) => Len(payments) < MaxPayments
         /\ orders' = IF OrderWritten(db) THEN SetStatus(order_id, "PAID", payment_id)
                      ELSE orders
         /\ payments' = IF PaymentWritten(db)
                        THEN Append(payments, PaymentRecord(order_id, payment_id, signature))
                        ELSE payments
         /\ resp' = VerifyResp("frontend", order_id, payment_id, signature, db, 200)
         /\ UNCHANGED <<callVars, authVars, prodVars, retVars, gwOrders>>

\* backend verify_payment: checks the signature and stores the payment
\* record ("optional: store payment in DB if app.state.db exists")
verify_payment_backend(order_id, payment_id, signature, db) ==
    IF ~SignatureOk(order_id, payment_id, signature)
    THEN /\ resp' = VerifyResp("backend", order_id, payment_id, signature, db, 400)
         /\ UNCHANGED <<callVars, authVars, prodVars, orders, retVars, payVars>>
    ELSE /\ PaymentWritten(db) => Len(payments) < MaxPayments
         /\ payments' = IF PaymentWritten(db)
                        THEN Append(payments, PaymentRecord(order_id, payment_id, signature))
                        ELSE payments
         /\ resp' = VerifyResp("backend", order_id, payment_id, signature, db, 200)
         /\ UNCHANGED <<callVars, authVars, prodVars, orders, retVars, gwOrders>>

GwOrderIdInputs == 1..MaxGwOrders
SignatureInputs(o, pid) == {Sign(o, pid), Forged}

CreateOrder ==
    \E amount \in AmountInputs, gw \in {"ok", "error"} :
        create_order(CustomerEmail, BaseItems, amount, gw)

CreateOrderBackend ==
    \E amount \in RupeeInputs, gw \in {"ok", "error"} : create_order_backend(amount, gw)

\* the verify actions of this specification run with the database up and
\* its writes going through
VerifyPayment ==
    \E o \in GwOrderIdInputs, pid \in PaymentIds :
        \E sig \in SignatureInputs(o, pid) : verify_payment(o, pid, sig, "ok")

VerifyPaymentBackend ==
    \E o \in GwOrderIdInputs, pid \in PaymentIds :
        \E sig \in SignatureInputs(o, pid) : verify_payment_backend(o, pid, sig, "ok")

InitPay ==
    /\ orders = EmptyOrders
    /\ inflight = NoCalls
    /\ attempts = << >>
    /\ return_requests = << >>
    /\ refunds = << >>
    /\ gwRefundCalls = 0
    /\ tasks = << >>
    /\ gwOrders = << >>
    /\ payments = << >>
    /\ IdleAuth
    /\ IdleProducts
    /\ resp = NoResp

IdleShop ==
    /\ orders = EmptyOrders
    /\ inflight = NoCalls
    /\ attempts = << >>
    /\ return_requests = << >>
    /\ refunds = << >>
    /\ gwRefundCalls = 0
    /\ tasks = << >>
    /\ gwOrders = << >>
    /\ payments = << >>

NextPay == CreateOrder \/ CreateOrderBackend \/ VerifyPayment \/ VerifyPaymentBackend

SpecPay == InitPay /\ [][NextPay]_vars


\* ---------------------------------------------------------------------
\* Claims about the payment router
\* ---------------------------------------------------------------------
VerifyStep == resp'.op = "verify_payment"
\* the signature presented is the gateway's signature for this order and payment
VerifyValid == resp'.signature = Sign(resp'.razorpay_order_id, resp'.razorpay_payment_id)

\* every order with the gateway order id of the call has the given status afterwards
OrdersOfCallHave(status) ==
    \A o \in DOMAIN orders :
        orders[o].razorpay_order_id = resp'.razorpay_order_id => orders'[o].status = status

VerifyEffect ==
    IF VerifyValid
    THEN /\ OrdersOfCallHave("PAID")
         /\ payments' = Append(payments,
                PaymentRecord(resp'.razorpay_order_id, resp'.razorpay_payment_id,
                              resp'.signature))
         /\ resp'.code = 200
    ELSE /\ OrdersOfCallHave("FAILED")
         /\ payments' = payments
         /\ resp'.code = 400

PwLimit == 72

Rep(n, c) == [i \in 1..n |-> c]

\* str.encode("utf-8"): ASCII text is its own encoding
RECURSIVE Utf8Encode(_)
Utf8Encode(s) ==
    IF \A i \in DOMAIN s : s[i] < 128 THEN s
    ELSE (IF Head(s) < 128 THEN <<Head(s)>>
          ELSE <<192 + (Head(s) \div 64), 128 + (Head(s) % 64)>>)
         \o Utf8Encode(Tail(s))

\* bytes.decode("utf-8", errors="ignore"): bytes that do not form a
\* character are dropped
RECURSIVE Utf8DecodeIgnore(_)
Utf8DecodeIgnore(b) ==
    IF \A i \in DOMAIN b : b[i] < 128 THEN b
    ELSE IF b[1] < 128 THEN <<b[1]>> \o Utf8DecodeIgnore(Tail(b))
    ELSE IF /\ b[1] >= 194
            /\ b[1] <= 223
            /\ Len(b) >= 2
            /\ b[2] >= 128
            /\ b[2] <= 191
         THEN <<(b[1] - 192) * 64 + (b[2] - 128)>> \o Utf8DecodeIgnore(Tail(Tail(b)))
    ELSE Utf8DecodeIgnore(Tail(b))

Whitespace == {9, 10, 11, 12, 13, 32}

RECURSIVE LStrip(_)
LStrip(s) == IF s # << >> /\ Head(s) \in Whitespace THEN LStrip(Tail(s)) ELSE s

RECURSIVE RStrip(_)
RStrip(s) ==
    IF s # << >> /\ s[Len(s)] \in Whitespace THEN RStrip(SubSeq(s, 1, Len(s) - 1)) ELSE s

\* str.strip()
Strip(s) == RStrip(LStrip(s))

\* A hash is the scheme and the bytes that entered the digest; the salt is
\* left out because verification recomputes the digest with the stored salt.
NoHash == [scheme |-> NONE, secret |-> << >>]

Argon2Hash(password) == [scheme |-> "argon2", secret |-> Utf8Encode(password)]

\* bcrypt digests the first 72 bytes of the secret only
BcryptSecret(password) ==
    LET pw_bytes == Utf8Encode(password)
    IN  IF Len(pw_bytes) > 72 THEN SubSeq(pw_bytes, 1, 72) ELSE pw_bytes

BcryptHash(password) == [scheme |-> "bcrypt", secret |-> BcryptSecret(password)]

\* pwd_context = CryptContext(schemes=["argon2", "bcrypt"], default="argon2")
get_password_hash(password) == Argon2Hash(password)

hash_password(password) == get_password_hash(password)

verify_password(plain_password, hashed_password) ==
    IF hashed_password = NoHash THEN FALSE
    ELSE IF hashed_password.scheme = "argon2"
         THEN Utf8Encode(plain_password) = hashed_password.secret
    ELSE IF hashed_password.scheme = "bcrypt"
         THEN BcryptSecret(plain_password) = hashed_password.secret
    ELSE FALSE

\* deprecated=["auto"]: every scheme but the default one is due for a rehash
needs_rehash(hashed_password) ==
    hashed_password # NoHash /\ hashed_password.scheme # "argon2"

\* crud/users.py: the password create_user and update_user hand to pwd_ctx.hash
CrudPassword(password) ==
    LET pw_bytes == Utf8Encode(password)
    IN  IF Len(pw_bytes) > PwLimit
        THEN Utf8DecodeIgnore(SubSeq(pw_bytes, 1, PwLimit))
        ELSE password

\* ---------------------------------------------------------------------
\* Users and tokens (routers/auth.py, core/security.py)
\* ---------------------------------------------------------------------
NoTs == 0 - 1           \* an absent timestamp (Python None / missing claim)
NoJti == 0              \* an absent jti

MaxTokens == 1          \* refresh tokens handed out
MaxResets == 1          \* reset tokens handed out by forgot_password
MaxUsers == 2           \* documents in db["users"]

\* the clock: an instant T0 and the instants the handlers' periods single out
T0 == 1000000
Instants == {T0, T0 + 3600, T0 + 3601}

\* datetime.utcnow().timestamp() reads the naive UTC time as local time;
\* the server's zone is UTC, so the offset is zero
UtcOffset == 0
NaiveTimestamp(t) == t - UtcOffset

SECRET_KEY == "change-me-to-a-secure-random-string"
JWT_SECRET_KEY == "change-me"

ADMIN_LOGIN_ONLY == TRUE
ACCESS_TTL == 60 * 60
REFRESH_TTL == 60 * 60 * 24 * 7
ADMIN_RESET_TTL == 40 * 60
RESET_TOKEN_TTL == 60 * 60
RESET_RATE_LIMIT == 60

\* str(ObjectId) of the documents of db["users"], in insertion order
UserIds == <<"u1", "u2", "u3", "u4">>
GhostId == "u9"         \* a well-formed ObjectId that no document has
IsObjectId(s) == s = GhostId \/ \E i \in DOMAIN UserIds : UserIds[i] = s

SeedPassword == Rep(13, 65)     \* SEED_ADMIN_PASSWORD, 13 ASCII bytes
CustomerPassword == Rep(8, 100)

NoReset == [token_hash |-> [sha256 |-> 0], expires_at |-> 0, created_at |-> 0]

UserDoc(id, email, role, roles, hashed) ==
    [ id |-> id, email |-> email, role |-> role, roles |-> roles,
      hashed_password |-> hashed, password_changed_at |-> NoTs,
      refresh_tokens |-> {}, password_reset |-> NoReset,
      last_reset_sent_at |-> 0 ]

\* scripts/seed_admin.py: the admin, hashed with bcrypt, no password_changed_at
SeedAdmin == UserDoc(UserIds[1], AdminEmail, "admin", {}, BcryptHash(SeedPassword))

\* a registered customer: no role
SeedCustomer == UserDoc(UserIds[2], CustomerEmail, NONE, {}, Argon2Hash(CustomerPassword))

\* roles can be in the `roles` list or the `role` string
RolesOf(user) == user.roles \cup (IF user.role # NONE THEN {user.role} ELSE {})
IsAdminDoc(user) == \E r \in RolesOf(user) : r \in {"admin", "owner"}

SetMin(S) == CHOOSE x \in S : \A y \in S : x <= y

\* find_one: the first document that matches, 0 when there is none
FindByEmail(email) ==
    LET hits == {i \in DOMAIN users : users[i].email = email}
    IN  IF hits = {} THEN 0 ELSE SetMin(hits)

FindById(id) ==
    LET hits == {i \in DOMAIN users : users[i].id = id}
    IN  IF hits = {} THEN 0 ELSE SetMin(hits)

\* _fetch_user_by_id_or_email: a well-formed ObjectId is looked up by _id
\* only; anything else by email
_fetch_user_by_id_or_email(user_id) ==
    IF IsObjectId(user_id) THEN FindById(user_id) ELSE FindByEmail(user_id)

\* the claims of a token besides iat and exp
NoClaims == [sub |-> NONE, type |-> NONE, jti |-> NoJti, role |-> NONE]

\* the first argument of create_access_token: a string or a dict of claims
StrSubject(s) == [str |-> s, claims |-> NoClaims]
DictSubject(d) == [str |-> NONE, claims |-> d]

\* a token is its payload and the key that signed it
create_access_token(subject, expires_delta, t) ==
    LET payload == IF subject.str = NONE
                   THEN subject.claims
                   ELSE [NoClaims EXCEPT !.sub = subject.str]
    IN  [ sub |-> payload.sub, type |-> payload.type, jti |-> payload.jti,
          role |-> payload.role,
          iat |-> NaiveTimestamp(t),
          exp |-> NaiveTimestamp(t + expires_delta),
          key |-> SECRET_KEY ]

\* create_access_token(subject=..., expires_delta=...) is a call the
\* signature def create_access_token(subject, expires_delta=None) accepts
AcceptsSubjectKeyword == TRUE

\* the first call that raises no TypeError returns the token
_create_token_robust(subject, expires_delta, data, t) ==
    LET withSub == [data EXCEPT !.sub = subject]
    IN  IF AcceptsSubjectKeyword
        THEN create_access_token(StrSubject(subject), expires_delta, t)
        ELSE create_access_token(DictSubject(withSub), expires_delta, t)

_create_refresh_token(subject, jti, t) ==
    _create_token_robust(subject, REFRESH_TTL, [NoClaims EXCEPT !.type = "refresh", !.jti = jti], t)

\* jose.jwt.decode: the signature must verify under the key and the token
\* must not be past its exp
JwtDecodes(token, key, t) ==
    /\ token.key = key
    /\ (token.exp = NoTs \/ t <= token.exp)

decode_access_token(token, t) == JwtDecodes(token, SECRET_KEY, t)

_ts_from_value(val) == IF val = NoTs THEN 0 ELSE val

\* payload.get("iat", 0)
TokenIat(token) == IF token.iat = NoTs THEN 0 ELSE token.iat

TokenRevokedMut(token, user) == TokenIat(token) <= _ts_from_value(user.password_changed_at)

TokenRevoked(token, user) == TokenIat(token) < _ts_from_value(user.password_changed_at)

\* the outcome of require_admin for a bearer token: status code and detail
RequireAdminResult(token, t) ==
    IF ~decode_access_token(token, t) THEN [code |-> 401, detail |-> "Invalid token"]
    ELSE IF token.sub = NONE THEN [code |-> 401, detail |-> "Invalid token payload"]
    ELSE LET i == _fetch_user_by_id_or_email(token.sub)
         IN  IF i = 0 THEN [code |-> 401, detail |-> "User not found"]
             ELSE IF TokenRevoked(token, users[i])
                  THEN [code |-> 401, detail |-> "Token revoked due to password change"]
             ELSE IF ~IsAdminDoc(users[i])
                  THEN [code |-> 403, detail |-> "Admin privileges required"]
             ELSE [code |-> 200, detail |-> "ok"]

\* ---------------------------------------------------------------------
\* Login, password reset and the admin check
\* ---------------------------------------------------------------------
shopVars == <<orders, retVars, payVars>>

\* what a handler asked the token helper for, and the token it got
Minted(subject, data, ttl, token) ==
    [asked |-> [data EXCEPT !.sub = subject], ttl |-> ttl, token |-> token]

RefreshData(jti) == [NoClaims EXCEPT !.type = "refresh", !.jti = jti]
AdminData == [NoClaims EXCEPT !.role = "admin"]
AdminResetData == [NoClaims EXCEPT !.role = "admin", !.type = "reset_password"]

AuthResp(op, email, code, detail, minted) ==
    [op |-> op, email |-> email, code |-> code, detail |-> detail, minted |-> minted]

LoginResp(op, email, password, code, detail, minted) ==
    [ op |-> op, email |-> email, password |-> password, code |-> code,
      detail |-> detail, minted |-> minted ]

\* what a failed login is answered with
BadCredentials == [code |-> 401, detail |-> "Incorrect email or password"]
\* /auth/login, admin-only mode: "generic error to avoid leaking role info"
NotAdminLoginMut == [code |-> 403, detail |-> "Admin privileges required"]
NotAdminLogin == BadCredentials

\* update_one(..., {"$addToSet": {"refresh_tokens": jti}})
AddToSetMut(refresh_tokens, jti) == refresh_tokens
AddToSet(refresh_tokens, jti) == refresh_tokens \cup {jti}

\* POST /auth/login
login_for_access_token(email, password) ==
    LET i == FindByEmail(email)
    IN  /\ IF i = 0 \/ ~verify_password(password, users[i].hashed_password)
           THEN /\ resp' = LoginResp("login", email, password, BadCredentials.code,
                                             BadCredentials.detail, {})
                /\ UNCHANGED <<callVars, shopVars, authVars, prodVars>>
           ELSE LET user == users[i]
                    rehashed == IF needs_rehash(user.hashed_password)
                                THEN hash_password(password)
                                ELSE user.hashed_password
                    subject == user.id
                    access_token == _create_token_robust(subject, ACCESS_TTL, NoClaims, now)
                    jti == nextJti
                    refresh_token == _create_refresh_token(subject, jti, now)
                IN  IF ADMIN_LOGIN_ONLY /\ ~IsAdminDoc(user)
                    THEN /\ users' = [users EXCEPT ![i].hashed_password = rehashed]
                         /\ resp' = LoginResp("login", email, password, NotAdminLogin.code,
                                              NotAdminLogin.detail, {})
                         /\ UNCHANGED <<callVars, shopVars, prodVars, now, issued, stale, nextJti,
                                        nextReset>>
                    ELSE /\ nextJti <= MaxTokens
                         /\ users' = [users EXCEPT ![i].hashed_password = rehashed,
                                                   ![i].refresh_tokens = AddToSet(@, jti)]
                         /\ issued' = issued \cup {access_token}
                         /\ nextJti' = nextJti + 1
                         /\ resp' = LoginResp("login", email, password, 200, "ok",
                                { Minted(subject, NoClaims, ACCESS_TTL, access_token),
                                  Minted(subject, RefreshData(jti), REFRESH_TTL,
                                         refresh_token) })
                         /\ UNCHANGED <<callVars, shopVars, prodVars, now, stale, nextReset>>

\* POST /admin/login
admin_login(email, password) ==
    LET i == FindByEmail(email)
    IN  IF i = 0 \/ ~verify_password(password, users[i].hashed_password)
        THEN /\ resp' = LoginResp("admin_login", email, password, BadCredentials.code,
                                BadCredentials.detail, {})
             /\ UNCHANGED <<callVars, shopVars, authVars, prodVars>>
        ELSE IF ~IsAdminDoc(users[i])
        THEN /\ resp' = LoginResp("admin_login", email, password, 403, "Admin privileges required", {})
             /\ UNCHANGED <<callVars, shopVars, authVars, prodVars>>
        ELSE LET subject == users[i].id
                 access_token == _create_token_robust(subject, ACCESS_TTL, AdminData, now)
             IN  /\ issued' = issued \cup {access_token}
                 /\ resp' = LoginResp("admin_login", email, password, 200, "ok",
                                     {Minted(subject, AdminData, ACCESS_TTL, access_token)})
                 /\ UNCHANGED <<callVars, shopVars, prodVars, users, now, stale, nextJti, nextReset>>

\* POST /admin/auth/forgot-password: the reset link goes to the server log
admin_forgot_password(email) ==
    LET i == FindByEmail(email)
    IN  /\ IF i = 0 \/ ~IsAdminDoc(users[i])
           THEN resp' = AuthResp("admin_forgot_password", email, 200, "ok", {})
           ELSE LET subject == users[i].id
                    reset_token == _create_token_robust(subject, ADMIN_RESET_TTL,
                                                        AdminResetData, now)
                IN  resp' = AuthResp("admin_forgot_password", email, 200, "ok",
                            {Minted(subject, AdminResetData, ADMIN_RESET_TTL, reset_token)})
        /\ UNCHANGED <<callVars, shopVars, authVars, prodVars>>

ResetResp(op, token, new_password, code, detail, user) ==
    [ op |-> op, token |-> token, new_password |-> new_password, code |-> code,
      detail |-> detail, user |-> user ]

\* the issued tokens of a user
TokensOf(user) == {tk \in issued : tk.sub = user.id}

\* POST /admin/auth/reset-password
admin_reset_password(token, new_password) ==
    LET Fail(code, detail) ==
            /\ resp' = ResetResp("admin_reset_password", token, new_password, code, detail, 0)
            /\ UNCHANGED <<callVars, shopVars, authVars, prodVars>>
    IN  IF Len(new_password) < 6 THEN Fail(400, "Password too short")
        ELSE IF ~JwtDecodes(token, JWT_SECRET_KEY, now)
        THEN Fail(400, "Invalid or expired reset token")
        ELSE IF token.type # "reset_password" \/ token.sub = NONE
        THEN Fail(400, "Invalid reset token")
        ELSE IF ~IsObjectId(token.sub) THEN Fail(400, "Invalid user id in token")
        ELSE LET i == FindById(token.sub)
             IN  IF i = 0 THEN Fail(404, "User not found")
                 ELSE IF ~IsAdminDoc(users[i])
                 THEN Fail(403, "Not allowed to reset this account here")
                 ELSE /\ users' = [users EXCEPT
                                     ![i].hashed_password = get_password_hash(new_password)]
                      /\ stale' = stale \cup TokensOf(users[i])
                      /\ resp' = ResetResp("admin_reset_password", token, new_password, 200,
                                           "Password updated successfully", i)
                      /\ UNCHANGED <<callVars, shopVars, prodVars, now, issued, nextJti, nextReset>>

\* hashlib.sha256(token).hexdigest()
_hash_token(token) == [sha256 |-> token]

\* email.lower().strip() on the addresses the model sends
MixedAdminEmail == "Admin@example.com"
UnknownEmail == "nobody@example.com"
LowerStrip(email) == IF email = MixedAdminEmail THEN AdminEmail ELSE email

SITE_ADMIN_EMAIL == ""

\* os.getenv("APP_ENV", "development")
APP_ENV == "development"
DevReturn(app_env) == app_env = "development"

\* response_model=MessageOut: only detail is serialised
MessageOut(returned) == [detail |-> returned.detail]

ForgotResp(email_in, body) ==
    [op |-> "forgot_password", email |-> email_in, code |-> 200, detail |-> body.detail]

\* POST /auth/forgot-password
forgot_password(email_in) ==
    LET email == LowerStrip(email_in)
        i == FindByEmail(email)
        generic == "If an account with that email exists, a password reset link has been sent."
        Generic == /\ resp' = ForgotResp(email_in, MessageOut([detail |-> generic]))
                   /\ UNCHANGED <<callVars, shopVars, authVars, prodVars>>
    IN  /\ IF SITE_ADMIN_EMAIL # "" /\ email # SITE_ADMIN_EMAIL THEN Generic
           ELSE IF i = 0 THEN Generic
           ELSE IF now - users[i].last_reset_sent_at < RESET_RATE_LIMIT THEN Generic
           ELSE LET token == nextReset
                IN  /\ nextReset <= MaxResets
                    /\ users' = [users EXCEPT
                          ![i].password_reset =
                              [ token_hash |-> _hash_token(token),
                                expires_at |-> NaiveTimestamp(now + RESET_TOKEN_TTL),
                                created_at |-> now ],
                          ![i].last_reset_sent_at = now]
                    /\ nextReset' = nextReset + 1
                    /\ tasks' = Append(tasks, [ task |-> "_send_reset_email_async",
                                                to |-> email, token |-> token ])
                    /\ resp' = ForgotResp(email_in, MessageOut(
                           IF DevReturn(APP_ENV)
                           THEN [detail |-> "reset created (dev)", reset_token |-> token]
                           ELSE [detail |-> generic]))
                    /\ UNCHANGED <<callVars, orders, return_requests, refunds, gwRefundCalls, payVars,
                                   prodVars, now, issued, stale, nextJti>>

\* POST /auth/reset-password
reset_password(token, new_password) ==
    LET Fail(code, detail) ==
            /\ resp' = ResetResp("reset_password", token, new_password, code, detail, 0)
            /\ UNCHANGED <<callVars, shopVars, authVars, prodVars>>
        token_hash == _hash_token(token)
        now_ts == now
        hits == {i \in DOMAIN users :
                    /\ users[i].password_reset.token_hash = token_hash
                    /\ users[i].password_reset.expires_at >= now_ts}
    IN  \* ResetIn.new_password has min_length=8: the request fails validation
        \* before the handler's own length check can answer
        IF Len(new_password) < 8 THEN Fail(422, "string_too_short")
        ELSE IF hits = {} THEN Fail(400, "Invalid or expired token")
        ELSE LET i == SetMin(hits)
             IN  /\ users' = [users EXCEPT
                        ![i].hashed_password = BcryptHash(new_password),
                        ![i].password_changed_at = now_ts,
                        ![i].refresh_tokens = {},
                        ![i].password_reset = NoReset]
                 /\ stale' = stale \cup TokensOf(users[i])
                 /\ resp' = ResetResp("reset_password", token, new_password, 200,
                                      "Password has been reset successfully.", i)
                 /\ UNCHANGED <<callVars, shopVars, prodVars, now, issued, nextJti, nextReset>>

\* the admin check that guards the admin-only routes
require_admin(token) ==
    /\ resp' = [ op |-> "require_admin", token |-> token,
                 code |-> RequireAdminResult(token, now).code,
                 detail |-> RequireAdminResult(token, now).detail ]
    /\ UNCHANGED <<callVars, shopVars, authVars, prodVars>>

\* ---------------------------------------------------------------------
\* The auth service as a state machine
\* ---------------------------------------------------------------------
EmailInputs == {AdminEmail, CustomerEmail, UnknownEmail}
LoginPasswords == {SeedPassword, Rep(8, 100)}
NewPasswords == {Rep(5, 100), Rep(8, 100)}

\* tokens signed outside the request handlers by a holder of a key (as
\* scripts/make_token.py does): a token is validly signed when its key is
\* the one the decoder uses
SignedToken(sub, iat, exp, type, key) ==
    [ sub |-> sub, type |-> type, jti |-> NoJti, role |-> NONE,
      iat |-> iat, exp |-> exp, key |-> key ]

SignedTokens ==
    { SignedToken(s, i, i + ACCESS_TTL, NONE, SECRET_KEY) :
          s \in {UserIds[1], UserIds[2]}, i \in {T0, T0 + 3600} }
    \cup { SignedToken(AdminEmail, NoTs, T0 + REFRESH_TTL, NONE, SECRET_KEY),
           SignedToken(GhostId, T0, T0 + 3600, NONE, SECRET_KEY),
           SignedToken(NONE, T0, T0 + 3600, NONE, SECRET_KEY),
           SignedToken(UserIds[1], T0, T0 + 3600, NONE, JWT_SECRET_KEY) }

\* reset tokens as admin_forgot_password means to mail them
SignedResetTokens ==
    { SignedToken(s, T0, T0 + ADMIN_RESET_TTL, ty, JWT_SECRET_KEY) :
          s \in {UserIds[1], UserIds[2], GhostId, AdminEmail},
          ty \in {"reset_password"} }
    \cup { SignedToken(UserIds[1], T0, T0 + ADMIN_RESET_TTL, NONE, JWT_SECRET_KEY) }

Login == \E e \in EmailInputs, p \in LoginPasswords : login_for_access_token(e, p)

AdminLogin == \E e \in EmailInputs, p \in LoginPasswords : admin_login(e, p)

AdminForgot == \E e \in EmailInputs : admin_forgot_password(e)

AdminReset ==
    \E tk \in SignedResetTokens \cup issued, p \in NewPasswords : admin_reset_password(tk, p)

Forgot == \E e \in {AdminEmail, MixedAdminEmail, UnknownEmail} : forgot_password(e)

Reset == \E tk \in 1..(MaxResets + 1), p \in NewPasswords : reset_password(tk, p)

RequireAdmin == \E tk \in SignedTokens \cup issued : require_admin(tk)

\* time passes between requests
Tick ==
    /\ \E t \in Instants : t > now /\ now' = t
    /\ resp' = [op |-> "tick", code |-> 0]
    /\ UNCHANGED <<callVars, shopVars, prodVars, users, issued, stale, nextJti, nextReset>>

InitAuth ==
    /\ IdleShop
    /\ IdleProducts
    /\ users = <<SeedAdmin, SeedCustomer>>
    /\ now = T0
    /\ issued = {}
    /\ stale = {}
    /\ nextJti = 1
    /\ nextReset = 1
    /\ resp = NoResp

NextAuth ==
    \/ Login
    \/ AdminLogin
    \/ AdminForgot
    \/ AdminReset
    \/ Forgot
    \/ Reset
    \/ RequireAdmin
    \/ Tick

SpecAuth == InitAuth /\ [][NextAuth]_vars

\* ---------------------------------------------------------------------
\* Claims about tokens and the admin check
\* ---------------------------------------------------------------------
RequireStep == resp'.op = "require_admin"

\* the document the subject of a token names, 0 when there is none
SubjectOf(token) ==
    IF token.sub = NONE THEN 0 ELSE _fetch_user_by_id_or_email(token.sub)

\* C3: for a token signed with the service key whose iat is T and whose
\* subject is a stored user, require_admin accepts it for an admin while the
\* clock is not past exp and T is not before the user's password_changed_at;
\* it answers 401 once the clock is past exp, and 401 whenever T is before
\* password_changed_at, whatever exp is.
C3_AdminCheck ==
    [][ RequireStep =>
            LET token == resp'.token
                i == SubjectOf(token)
            IN  (token.key = SECRET_KEY /\ token.iat # NoTs /\ i # 0) =>
                    LET pca == users[i].password_changed_at
                        changed == IF pca = NoTs THEN 0 ELSE pca
                    IN  /\ ( /\ IsAdminDoc(users[i])
                             /\ token.iat >= changed
                             /\ now <= token.exp ) => resp'.code = 200
                        /\ now > token.exp => resp'.code = 401
                        /\ token.iat < changed => resp'.code = 401
      ]_vars

\* an issued token that has not expired was refused because the password of
\* its subject changed after it was issued
C3_Witness ==
    /\ resp.op = "require_admin"
    /\ resp.code = 401
    /\ resp.detail = "Token revoked due to password change"
    /\ resp.token \in issued
    /\ now <= resp.token.exp
    /\ SubjectOf(resp.token) # 0
    /\ resp.token.iat < users[SubjectOf(resp.token)].password_changed_at

\* C4: once a password reset has succeeded for a user, through
\* /auth/reset-password or /admin/auth/reset-password, require_admin refuses
\* every access token that was issued to that user before the reset.
C4_ResetRevokesIssued ==
    [][ (RequireStep /\ resp'.token \in stale) => resp'.code # 200 ]_vars

IssueStep == resp'.op \in {"login", "admin_login", "admin_forgot_password"}

\* a token carries sub, iat, exp and each claim the caller passed
Carries(m) ==
    /\ m.token.sub = m.asked.sub
    /\ m.token.iat # NoTs
    /\ m.token.exp # NoTs
    /\ m.token.type = m.asked.type
    /\ m.token.jti = m.asked.jti
    /\ m.token.role = m.asked.role

\* C9: every token the helper _create_token_robust produces for a subject, a
\* lifetime and caller claims carries sub, iat, exp and each caller claim:
\* type=refresh and the jti in a refresh token, role in an admin access
\* token, type=reset_password in an admin reset token.
C9_TokenCarriesClaims ==
    [][ IssueStep => \A m \in resp'.minted : Carries(m) ]_vars

\* ---------------------------------------------------------------------
\* Creating users: crud/users.py and POST /auth/register
\* ---------------------------------------------------------------------
NewEmail == "new@example.com"

UserResp(op, email, password, code, detail, index) ==
    [ op |-> op, email |-> email, password |-> password, code |-> code,
      detail |-> detail, index |-> index ]

\* crud.create_user(user_data): no duplicate check, the password cut to 72 bytes
create_user(email_in, password, roles) ==
    LET email == LowerStrip(email_in)
        index == Len(users) + 1
    IN  /\ Len(users) < MaxUsers
        /\ users' = Append(users,
              UserDoc(UserIds[index], email, NONE, roles, Argon2Hash(CrudPassword(password))))
        /\ resp' = UserResp("create_user", email_in, password, 200, "ok", index)
        /\ UNCHANGED <<callVars, shopVars, prodVars, now, issued, stale, nextJti, nextReset>>

\* crud.update_user(user_id, {"password": ...})
update_user(user_id, password) ==
    LET i == IF IsObjectId(user_id) THEN FindById(user_id) ELSE 0
    IN  IF i = 0
        THEN /\ resp' = UserResp("update_user", user_id, password, 404, "None", 0)
             /\ UNCHANGED <<callVars, shopVars, authVars, prodVars>>
        ELSE /\ users' = [users EXCEPT
                            ![i].hashed_password = Argon2Hash(CrudPassword(password))]
             /\ resp' = UserResp("update_user", user_id, password, 200, "ok", i)
             /\ UNCHANGED <<callVars, shopVars, prodVars, now, issued, stale, nextJti, nextReset>>

\* POST /auth/register, behind Depends(require_admin); UserCreate.password
\* has min_length=6; EmailStr keeps the letter case of the local part, and
\* the duplicate check is find_one({"email": email}), an exact match
\* the id in the reply when insert_one raised: uuid4().hex, which names no document
FallbackIndex == 0 - 1

\* db: insert_one stores the document, or raises (caught, "using fallback ID")
register_user(token, email, password, db) ==
    LET Fail(code, detail) ==
            /\ resp' = UserResp("register_user", email, password, code, detail, 0)
            /\ UNCHANGED <<callVars, shopVars, authVars, prodVars>>
        admin == RequireAdminResult(token, now)
        raw_password == Strip(password)
        index == Len(users) + 1
    IN  IF admin.code # 200 THEN Fail(admin.code, admin.detail)
        ELSE IF Len(password) < 6 THEN Fail(422, "string_too_short")
        ELSE IF Len(Utf8Encode(raw_password)) > 72
        THEN Fail(400, "Password too long for bcrypt")
        ELSE IF FindByEmail(email) # 0 THEN Fail(409, "Email already registered")
        ELSE IF db # "ok"
        THEN /\ resp' = UserResp("register_user", email, password, 200, "ok", FallbackIndex)
             /\ UNCHANGED <<callVars, shopVars, authVars, prodVars>>
        ELSE /\ Len(users) < MaxUsers
             /\ users' = Append(users,
                   UserDoc(UserIds[index], email, NONE, {}, get_password_hash(raw_password)))
             /\ resp' = UserResp("register_user", email, password, 200, "ok", index)
             /\ UNCHANGED <<callVars, shopVars, prodVars, now, issued, stale, nextJti, nextReset>>

\* passwords around the 72-byte limit: 8, 72 and 73 ASCII bytes, 72
\* characters that take 73 bytes, and 72 bytes behind a blank
PwInputs ==
    { Rep(8, 97), Rep(72, 97), Rep(72, 97) \o <<98>>, Rep(71, 97) \o <<233>>,
      <<32>> \o Rep(72, 97) }

AdminToken == SignedToken(UserIds[1], T0, T0 + ACCESS_TTL, NONE, SECRET_KEY)
CustomerToken == SignedToken(UserIds[2], T0, T0 + ACCESS_TTL, NONE, SECRET_KEY)

CreateUser ==
    \E p \in PwInputs, r \in {{}, {"admin"}} :
        \E e \in (IF p = Rep(8, 97) THEN {NewEmail, MixedAdminEmail} ELSE {NewEmail}) :
            create_user(e, p, r)

UpdateUser == \E id \in {UserIds[2], GhostId}, p \in PwInputs : update_user(id, p)

RegisterUser ==
    \E e \in {NewEmail, AdminEmail, MixedAdminEmail}, p \in PwInputs \cup {Rep(5, 97)} :
        /\ e = MixedAdminEmail => p = Rep(8, 97)
        /\ \E tk \in (IF p = Rep(8, 97) THEN {AdminToken, CustomerToken} ELSE {AdminToken}) :
              register_user(tk, e, p, "ok")

LoginPw == \E e \in {AdminEmail, NewEmail}, p \in PwInputs \cup {SeedPassword} :
    login_for_access_token(e, p)

InitPw ==
    /\ IdleShop
    /\ IdleProducts
    /\ users = <<SeedAdmin>>
    /\ now = T0
    /\ issued = {}
    /\ stale = {}
    /\ nextJti = 1
    /\ nextReset = 1
    /\ resp = NoResp

NextPw == CreateUser \/ UpdateUser \/ RegisterUser \/ LoginPw

SpecPw == InitPw /\ [][NextPw]_vars

\* ---------------------------------------------------------------------
\* Claims about password hashing
\* ---------------------------------------------------------------------
StoreStep ==
    /\ resp'.op \in {"create_user", "update_user", "register_user"}
    /\ resp'.code = 200

\* C8: a password p within the 72-byte limit verifies against its own hash;
\* a password p over the limit that user creation, update or registration
\* did not reject verifies against the hash they stored for it.
C8_HashVerifyRoundTrip ==
    [][ StoreStep =>
            LET p == resp'.password
                stored == users'[resp'.index].hashed_password
            IN  IF Len(Utf8Encode(p)) <= PwLimit
                THEN verify_password(p, get_password_hash(p))
                ELSE verify_password(p, stored)
      ]_vars

\* ---------------------------------------------------------------------
\* The product catalogue (routers/products.py)
\* ---------------------------------------------------------------------
MaxProducts == 1

GENDERS == {"men", "women"}

ALLOWED_CATEGORIES ==
    [ c \in {"clothing"} |->
        {"tshirt", "jeans", "kurti", "saree", "jacket", "shirt", "trouser", "shorts", "kurta"} ]

\* A text field of a request: the word it holds once stripped and lowered,
\* whether it came in upper case, whether it came padded with blanks.
Text(word, upper, pad) == [word |-> word, upper |-> upper, pad |-> pad]
Plain(word) == Text(word, FALSE, FALSE)
Absent == Text(NONE, FALSE, FALSE)          \* the field is None
NoPrice == 0 - 999999                       \* the price is None

\* v.strip().lower()
StripLower(v) == v.word

\* the products router's own require_admin: a bearer token signed with
\* JWT_SECRET that carries is_admin
ProductCallers == {"admin", "not_admin", "missing"}
CallerCode(caller) ==
    IF caller = "missing" THEN 401 ELSE IF caller = "not_admin" THEN 403 ELSE 200

\* ProductBase validators: the normalised pair, or a validation error
CategoryValid(v) == StripLower(v) \in DOMAIN ALLOWED_CATEGORIES

SubcategoryAllowed(category, sub) ==
    category \in DOMAIN ALLOWED_CATEGORIES /\ sub \in ALLOWED_CATEGORIES[category]

ProductBaseValid(payload) ==
    /\ payload.gender \in GENDERS
    /\ CategoryValid(payload.category)
    /\ SubcategoryAllowed(StripLower(payload.category), StripLower(payload.subcategory))
    /\ payload.price >= 0

\* ProductUpdate validators: a field that is None passes; the subcategory is
\* checked against the category of the same request only
ProductUpdateValid(payload) ==
    /\ payload.gender = NONE \/ payload.gender \in GENDERS
    /\ payload.category = Absent \/ CategoryValid(payload.category)
    /\ \/ payload.subcategory = Absent
       \/ payload.category = Absent
       \/ SubcategoryAllowed(StripLower(payload.category), StripLower(payload.subcategory))

\* response_model=ProductInDB: the document read back after the write is
\* validated as a ProductBase before it is sent
ProductInDBValid(doc) ==
    /\ doc.gender \in GENDERS
    /\ SubcategoryAllowed(doc.category, doc.subcategory)
    /\ doc.price >= 0

ProductResp(op, product_id, payload, caller, code, detail) ==
    [ op |-> op, product_id |-> product_id, payload |-> payload, caller |-> caller,
      code |-> code, detail |-> detail ]

\* POST /products/
create_product(payload, caller) ==
    LET Fail(code, detail) ==
            /\ resp' = ProductResp("create_product", 0, payload, caller, code, detail)
            /\ UNCHANGED <<callVars, shopVars, authVars, prodVars>>
    IN  IF CallerCode(caller) # 200 THEN Fail(CallerCode(caller), "auth")
        ELSE IF ~ProductBaseValid(payload) THEN Fail(422, "validation error")
        ELSE /\ Len(products) < MaxProducts
             /\ products' = Append(products,
                    [ gender |-> payload.gender,
                      category |-> StripLower(payload.category),
                      subcategory |-> StripLower(payload.subcategory),
                      price |-> payload.price ])
             /\ resp' = ProductResp("create_product", Len(products) + 1, payload, caller,
                                    201, "created")
             /\ UNCHANGED <<callVars, shopVars, authVars>>

\* product ids: 0 is a string that is no ObjectId, n the id of the n-th product
BadProductId == 0

\* PUT /products/{product_id}
update_product(product_id, payload, caller) ==
    LET Fail(code, detail) ==
            /\ resp' = ProductResp("update_product", product_id, payload, caller, code, detail)
            /\ UNCHANGED <<callVars, shopVars, authVars, prodVars>>
        hasCategory == payload.category # Absent
        hasSubcategory == payload.subcategory # Absent
        empty == /\ payload.gender = NONE
                 /\ ~hasCategory
                 /\ ~hasSubcategory
                 /\ payload.price = NoPrice
    IN  IF CallerCode(caller) # 200 THEN Fail(CallerCode(caller), "auth")
        ELSE IF ~ProductUpdateValid(payload) THEN Fail(422, "validation error")
        ELSE IF product_id = BadProductId THEN Fail(400, "Invalid product id")
        ELSE IF /\ hasCategory
                /\ hasSubcategory
                /\ ~SubcategoryAllowed(StripLower(payload.category),
                                       StripLower(payload.subcategory))
        THEN Fail(400, "subcategory must be one of")
        ELSE IF empty THEN Fail(400, "No fields to update")
        ELSE IF product_id \notin DOMAIN products
        THEN \* find_one gives None and doc["_id"] raises
             Fail(500, "Internal Server Error")
        ELSE /\ products' = [products EXCEPT ![product_id] =
                    [ gender |-> IF payload.gender = NONE THEN @.gender ELSE payload.gender,
                      category |-> IF hasCategory THEN StripLower(payload.category)
                                   ELSE @.category,
                      subcategory |-> IF hasSubcategory THEN StripLower(payload.subcategory)
                                      ELSE @.subcategory,
                      price |-> IF payload.price = NoPrice THEN @.price ELSE payload.price ]]
             /\ resp' = IF ProductInDBValid(products'[product_id])
                        THEN ProductResp("update_product", product_id, payload, caller,
                                         200, "ok")
                        ELSE ProductResp("update_product", product_id, payload, caller,
                                         500, "Internal Server Error")
             /\ UNCHANGED <<callVars, shopVars, authVars>>

Payload(gender, category, subcategory, price) ==
    [gender |-> gender, category |-> category, subcategory |-> subcategory, price |-> price]

CreatePayloads ==
    { Payload("men", c, s, 499) :
          c \in {Plain("clothing"), Text("clothing", TRUE, TRUE), Plain("footwear")},
          s \in {Plain("tshirt"), Text("jeans", TRUE, TRUE), Plain("shoes")} }
    \cup { Payload("kids", Plain("clothing"), Plain("tshirt"), 499),
           Payload("women", Plain("clothing"), Plain("kurti"), 0 - 1) }

UpdatePayloads ==
    { Payload(NONE, c, s, p) :
          c \in {Absent, Plain("clothing"), Plain("footwear")},
          s \in {Absent, Plain("jeans"), Text("shoes", TRUE, FALSE)},
          p \in {NoPrice, 0 - 1} }

CallersFor(payload) ==
    IF payload.subcategory = Plain("tshirt") THEN ProductCallers ELSE {"admin"}

CreateProduct ==
    \E payload \in CreatePayloads : \E caller \in CallersFor(payload) :
        create_product(payload, caller)

UpdateProduct ==
    \E id \in 0..(MaxProducts + 1), payload \in UpdatePayloads :
        \E caller \in (IF payload.subcategory = Absent THEN ProductCallers ELSE {"admin"}) :
            update_product(id, payload, caller)

InitProducts ==
    /\ IdleShop
    /\ IdleAuth
    /\ products = << >>
    /\ resp = NoResp

NextProducts == CreateProduct \/ UpdateProduct

SpecProducts == InitProducts /\ [][NextProducts]_vars

\* ---------------------------------------------------------------------
\* Claims about the catalogue
\* ---------------------------------------------------------------------
InTaxonomy(doc) ==
    /\ doc.category \in {"clothing"}
    /\ doc.subcategory \in ALLOWED_CATEGORIES[doc.category]

\* the request names a category or a subcategory that the taxonomy lacks
OutsideTaxonomy(payload) ==
    \/ (payload.category # Absent /\ payload.category.word # "clothing")
    \/ ( /\ payload.subcategory # Absent
         /\ payload.subcategory.word \notin ALLOWED_CATEGORIES["clothing"] )

\* C5: after any sequence of product creates and updates every stored
\* product has a category of the taxonomy and a subcategory that the
\* taxonomy lists for that category; a create or update that carries a
\* category or subcategory outside the taxonomy is answered with a
\* validation error and leaves the stored products as they were.
C5_TaxonomyKept ==
    [][ /\ \A i \in DOMAIN products' : InTaxonomy(products'[i])
        /\ ( /\ resp'.op \in {"create_product", "update_product"}
             /\ resp'.caller = "admin"
             /\ OutsideTaxonomy(resp'.payload) ) =>
                /\ resp'.code \in {400, 422}
                /\ products' = products
      ]_vars

\* ---------------------------------------------------------------------
\* Return requests: admission and status life cycle
\* ---------------------------------------------------------------------
CreateStep == resp'.op = "create_return_request"

\* C11: create_return_request stores a return request only if the referenced
\* order exists, the order's customer_email equals the requester's email and
\* the order is in the delivered state; a missing order is answered 404, a
\* foreign order 403, an undelivered order 400, and in each of these cases
\* the return_requests collection is unchanged.
C11_CreateAdmission ==
    [][ CreateStep =>
          LET id == resp'.order_id
              exists == id \in DOMAIN orders
              owned == exists /\ orders[id].customer_email = resp'.email
              delivered == exists /\ orders[id].status = "delivered"
          IN  /\ return_requests' # return_requests => exists /\ owned /\ delivered
              /\ ~exists => resp'.code = 404 /\ return_requests' = return_requests
              /\ exists /\ ~owned => resp'.code = 403 /\ return_requests' = return_requests
              /\ exists /\ owned /\ ~delivered =>
                    resp'.code = 400 /\ return_requests' = return_requests
              /\ resp'.code = 201 =>
                    /\ Len(return_requests') = Len(return_requests) + 1
                    /\ return_requests'[Len(return_requests')].order_id = id ]_vars

\* a request was stored for the requester's own delivered order
C11_Witness ==
    /\ resp.op = "create_return_request"
    /\ resp.code = 201
    /\ Len(return_requests) = 1
    /\ return_requests[1].customer_email = resp.email
    /\ orders[resp.order_id].customer_email = resp.email
    /\ orders[resp.order_id].status = "delivered"

\* C12: a return request is created pending, and once its status is refunded
\* or rejected no admin action (approve or reject) changes the status again.
C12_StatusStateMachine ==
    [][ /\ \A i \in DOMAIN return_requests' :
              i \notin DOMAIN return_requests => return_requests'[i].status = "pending"
        /\ \A i \in DOMAIN return_requests :
              return_requests[i].status \in {"refunded", "rejected"} =>
                  return_requests'[i].status = return_requests[i].status ]_vars

\* ---------------------------------------------------------------------
\* Admin order status (frontend/app/routers/orders.py)
\* ---------------------------------------------------------------------
MaxOrders == 1
MaxNotifications == 2

\* the path parameter is matched against razorpay_order_id and against _id
RzKey(id) == [field |-> "razorpay_order_id", rz |-> id, oid |-> NONE]
IdKey(id) == [field |-> "_id", rz |-> NoId, oid |-> id]
OrderKeys ==
    {RzKey(i) : i \in GwOrderIdInputs} \cup {IdKey(o) : o \in OrderIds \cup {StrNone, "missing"}}

\* {"$or": [{"razorpay_order_id": order_id}, {"_id": order_id}, {"id": order_id}, {"_id": oid}]}
OrdersMatching(key) ==
    { o \in DOMAIN orders :
        \/ key.field = "razorpay_order_id" /\ orders[o].razorpay_order_id = key.rz
        \/ key.field = "_id" /\ o = key.oid }

\* str.upper() on the status words in use
Upper(status) ==
    CASE status = "shipped" -> "SHIPPED"
      [] OTHER -> status

\* the statuses for which a customer mail is scheduled
NotifiedStatuses == {"SHIPPED", "DELIVERED", "CANCELLED"}

MailTask(new_status) ==
    CASE new_status = "SHIPPED" -> "send_order_shipped_email_customer"
      [] new_status = "DELIVERED" -> "send_order_delivered_email_customer"
      [] new_status = "CANCELLED" -> "send_order_cancelled_email_customer"

\* updated.get("email") or updated.get("customer_email")
OrderCustomerEmail(order) ==
    IF order.email # NONE THEN order.email ELSE order.customer_email

StatusResp(key, status, tracking_url, tracking_id, courier_name, code, before, mailed) ==
    [ op |-> "update_order_status", key |-> key, status |-> status,
      tracking_url |-> tracking_url, tracking_id |-> tracking_id,
      courier_name |-> courier_name, code |-> code, before |-> before, mailed |-> mailed ]

\* "if payload.<field> is not None": the field goes into the $set document
SuppliedMut(value) == TRUE
Supplied(value) == value # NONE

\* PATCH /admin/orders/{order_id}/status
update_order_status(key, status, tracking_url, tracking_id, courier_name) ==
    IF OrdersMatching(key) = {}
    THEN /\ resp' = StatusResp(key, status, tracking_url, tracking_id, courier_name, 404,
                              NONE, FALSE)
         /\ UNCHANGED <<callVars, authVars, prodVars, orders, retVars, payVars>>
    ELSE LET o == CHOOSE x \in OrdersMatching(key) : TRUE
             updated == [orders[o] EXCEPT
                            !.status = status,
                            !.tracking_url = IF Supplied(tracking_url) THEN tracking_url ELSE @,
                            !.tracking_id = IF Supplied(tracking_id) THEN tracking_id ELSE @,
                            !.courier_name = IF Supplied(courier_name) THEN courier_name
                                             ELSE @]
             new_status == Upper(status)
             customer_email == OrderCustomerEmail(updated)
             mail == customer_email # NONE /\ new_status \in NotifiedStatuses
         IN  /\ mail => Len(tasks) < MaxNotifications
             /\ orders' = [orders EXCEPT ![o] = updated]
             /\ tasks' = IF mail
                         THEN Append(tasks, [ task |-> MailTask(new_status),
                                              to |-> customer_email, order_id |-> o ])
                         ELSE tasks
             /\ resp' = StatusResp(key, status, tracking_url, tracking_id, courier_name, 200,
                                  orders[o].status, mail)
             /\ UNCHANGED <<callVars, authVars, prodVars, return_requests, refunds, gwRefundCalls,
                            payVars>>

StatusInputs == {"PROCESSING", "SHIPPED", "shipped", "DELIVERED", "CANCELLED", "PAID", "FAILED"}
TrackingInputs == {NONE, "https://track.example/1"}

\* an order placed through /create-order, with or without an email
PlaceOrder ==
    /\ Cardinality(DOMAIN orders) < MaxOrders
    /\ \E email \in {CustomerEmail, NONE} : create_order(email, BaseItems, 49900, "ok")

UpdateOrderStatus ==
    \E key \in OrderKeys, status \in StatusInputs, tracking_url \in TrackingInputs :
        update_order_status(key, status, tracking_url, NONE, NONE)

\* verification with every outcome of the database writes
VerifyPaymentDb ==
    \E o \in GwOrderIdInputs, pid \in PaymentIds, db \in DbOutcomes :
        \E sig \in SignatureInputs(o, pid) : verify_payment(o, pid, sig, db)

VerifyPaymentBackendDb ==
    \E o \in GwOrderIdInputs, pid \in PaymentIds, db \in {"ok", "unset", "insert_failed"} :
        \E sig \in SignatureInputs(o, pid) : verify_payment_backend(o, pid, sig, db)

NextOrders == PlaceOrder \/ VerifyPaymentDb \/ VerifyPaymentBackendDb \/ UpdateOrderStatus

SpecOrders == InitPay /\ [][NextOrders]_vars

StatusStep == resp'.op = "update_order_status" /\ resp'.code = 200

\* C13: on an order with a customer email, an admin status update schedules
\* exactly one notification when it changes the status into SHIPPED,
\* DELIVERED or CANCELLED (in any letter case), and none when it re-sends the status the order
\* already has or sets any other status; so the notifications scheduled
\* count the status changes into those three statuses.
C13_NotificationPerTransition ==
    [][ StatusStep =>
          \A o \in OrdersMatching(resp'.key) :
              OrderCustomerEmail(orders[o]) # NONE =>
                  LET transition == /\ orders'[o].status # orders[o].status
                                    /\ Upper(orders'[o].status) \in NotifiedStatuses
                  IN  Len(tasks') = Len(tasks) + (IF transition THEN 1 ELSE 0) ]_vars

\* C14: an order's status becomes PAID or FAILED only as the result of
\* verify_payment; no other operation, the admin status update included,
\* puts an order into PAID or FAILED.
C14_PaidOnlyByVerify ==
    [][ \A o \in DOMAIN orders' :
            ( /\ orders'[o].status \in {"PAID", "FAILED"}
              /\ (o \notin DOMAIN orders \/ orders[o].status # orders'[o].status) )
            => resp'.op = "verify_payment" ]_vars

\* ---------------------------------------------------------------------
\* Registration: one account per email
\* ---------------------------------------------------------------------
RegisterStep == resp'.op = "register_user"

\* some stored record has this email, compared case-insensitively
EmailPresent(us, email) ==
    \E i \in DOMAIN us : LowerStrip(us[i].email) = LowerStrip(email)

NoDuplicateEmails(us) ==
    \A i, j \in DOMAIN us : i # j => LowerStrip(us[i].email) # LowerStrip(us[j].email)

\* C15: a register call for an email already present, in any letter case, is
\* rejected (409 once the caller and the password are accepted) and inserts
\* nothing, so register operations never store two records whose emails are
\* equal when compared case-insensitively.
C15_RegisterUniqueEmail ==
    [][ RegisterStep =>
          /\ EmailPresent(users, resp'.email) =>
                /\ users' = users
                /\ resp'.code \in {401, 403, 422, 400, 409}
          /\ NoDuplicateEmails(users) => NoDuplicateEmails(users') ]_vars

\* ---------------------------------------------------------------------
\* Login
\* ---------------------------------------------------------------------
LoginStep(op) == resp'.op = op

\* what the client sees of a login response
Reply(r) == [code |-> r.code, detail |-> r.detail, minted |-> r.minted]
GenericFailure == [code |-> 401, detail |-> "Incorrect email or password", minted |-> {}]

UnknownEmailCase(r) == FindByEmail(r.email) = 0
WrongPasswordCase(r) ==
    /\ FindByEmail(r.email) # 0
    /\ ~verify_password(r.password, users[FindByEmail(r.email)].hashed_password)
NotAdminCase(r) ==
    /\ FindByEmail(r.email) # 0
    /\ verify_password(r.password, users[FindByEmail(r.email)].hashed_password)
    /\ ~IsAdminDoc(users[FindByEmail(r.email)])

\* C16: a failed login does not reveal which check failed: on /auth/login and
\* on /admin/login an unknown email and a known email with a wrong password
\* get one and the same response, and on /auth/login (admin-only mode) the
\* correct password of a user without the admin/owner role gets it too.
C16_LoginFailureUniform ==
    [][ /\ ( /\ LoginStep("login")
              /\ ADMIN_LOGIN_ONLY
              /\ \/ UnknownEmailCase(resp')
                 \/ WrongPasswordCase(resp')
                 \/ NotAdminCase(resp') )
            => Reply(resp') = GenericFailure
        /\ ( /\ LoginStep("admin_login")
              /\ (UnknownEmailCase(resp') \/ WrongPasswordCase(resp')) )
            => Reply(resp') = GenericFailure ]_vars

\* a customer gave the correct password on /auth/login and got the generic answer
C16_Witness ==
    /\ resp.op = "login"
    /\ FindByEmail(resp.email) # 0
    /\ ~IsAdminDoc(users[FindByEmail(resp.email)])
    /\ verify_password(resp.password, users[FindByEmail(resp.email)].hashed_password)
    /\ Reply(resp) = GenericFailure

\* the login names an existing admin and carries that admin's password
AdminCredentials(r) ==
    /\ FindByEmail(r.email) # 0
    /\ IsAdminDoc(users[FindByEmail(r.email)])
    /\ verify_password(r.password, users[FindByEmail(r.email)].hashed_password)

GenericResetMessage ==
    "If an account with that email exists, a password reset link has been sent."

\* C19: forgot-password always answers with a success status and the same
\* generic message, whether or not the email belongs to a registered account
\* and whether or not the request was suppressed by the rate limit.
C19_ForgotAlwaysGeneric ==
    [][ resp'.op = "forgot_password" =>
          resp'.code = 200 /\ resp'.detail = GenericResetMessage ]_vars

\* ---------------------------------------------------------------------
\* Products: price
\* ---------------------------------------------------------------------
NegativePrice(payload) == payload.price # NoPrice /\ payload.price < 0

\* C20: after any sequence of product creates and updates every stored
\* product has price >= 0; a create or update that carries a negative price
\* is rejected and leaves the stored products as they were.
C20_PriceNonNegative ==
    [][ /\ \A i \in DOMAIN products' : products'[i].price >= 0
        /\ ( /\ resp'.op \in {"create_product", "update_product"}
             /\ NegativePrice(resp'.payload) ) =>
                /\ resp'.code # 200
                /\ resp'.code # 201
                /\ products' = products ]_vars

\* ---------------------------------------------------------------------
\* Payment records
\* ---------------------------------------------------------------------
\* the records already stored are still there, in place and unmodified
PaymentsKept ==
    /\ Len(payments') >= Len(payments)
    /\ \A i \in DOMAIN payments : payments'[i] = payments[i]

\* C17: the payments collection is append-only with exactly one record per
\* successful verification: a verify_payment call answered with success adds
\* exactly one payment record, a failed verification adds none, and no
\* operation modifies or deletes a stored payment record.
C17_PaymentsAuditLog ==
    [][ /\ PaymentsKept
        /\ (VerifyStep /\ resp'.code = 200) => Len(payments') = Len(payments) + 1
        /\ (VerifyStep /\ resp'.code # 200) => payments' = payments
        /\ ~VerifyStep => payments' = payments ]_vars

\* ---------------------------------------------------------------------
\* Order life cycle
\* ---------------------------------------------------------------------
FulfilmentStatuses == {"PROCESSING", "SHIPPED", "DELIVERED"}

\* C21: order status follows the life cycle: an order that is in
\* PENDING_PAYMENT or FAILED never moves to PROCESSING, SHIPPED or DELIVERED
\* (these are entered only by an order that was PAID before), and an order
\* enters CANCELLED only from a shipment state.
C21_LifecycleOrder ==
    [][ \A o \in DOMAIN orders :
          orders'[o].status # orders[o].status =>
            /\ Upper(orders'[o].status) \in FulfilmentStatuses =>
                  orders[o].status \notin {"PENDING_PAYMENT", "FAILED"}
            /\ orders'[o].status = "CANCELLED" =>
                  Upper(orders[o].status) \in FulfilmentStatuses ]_vars

\* C22: verify_payment changes the status only of an order that is in
\* PENDING_PAYMENT: a PAID order stays PAID after a later verify call with
\* an invalid signature, a FAILED order stays FAILED, and an order the admin
\* has moved to a fulfilment status is not reset to PAID or FAILED.
C22_VerifyOnlyPending ==
    [][ VerifyStep =>
          \A o \in DOMAIN orders :
              orders[o].status # "PENDING_PAYMENT" =>
                  orders'[o].status = orders[o].status ]_vars

\* ---------------------------------------------------------------------------
\* admin_action as the event loop runs it: the coroutine gives up control at
\* each await (find_one, call_razorpay_refund's run_in_executor, update_one),
\* and another request's handler can run in between
\* ---------------------------------------------------------------------------

Suspended(h, gateway) == [op |-> "await", handler |-> h, gateway |-> gateway, code |-> 0]

\* the document the handler's checks read: the one find_one returned to it
ReqSeenMut(h) == return_requests[inflight[h].request_id]
ReqSeen(h) == inflight[h].req

\* up to the first await: the admin dependency, then find_one
admin_action_find(h, request_id, action, admin_user) ==
    /\ inflight[h] = NoCall
    /\ UNCHANGED attempts
    /\ UNCHANGED <<authVars, prodVars, orders, retVars, payVars>>
    /\ IF ~admin_user.is_admin
       THEN /\ resp' = AdminResp(action, request_id, admin_user, "not_called", 403,
                                 "Admin required", NoId)
            /\ UNCHANGED inflight
       ELSE IF request_id \notin DOMAIN return_requests
       THEN /\ resp' = AdminResp(action, request_id, admin_user, "not_called", 404,
                                 "Return request not found", NoId)
            /\ UNCHANGED inflight
       ELSE /\ inflight' = [inflight EXCEPT ![h] =
                   [ call |-> "admin_action", stage |-> "find_one",
                     request_id |-> request_id, action |-> action,
                     admin_user |-> admin_user, req |-> return_requests[request_id],
                     refund_id |-> NoId ]]
            /\ resp' = Suspended(h, "not_called")

\* from find_one's answer to the next await: the status checks on the document
\* read, then the gateway call (approve) or the update (reject)
admin_action_checks(h, outcome) ==
    LET c == inflight[h]
        req == ReqSeen(h)
        Fail(code, detail) ==
            /\ resp' = AdminResp(c.action, c.request_id, c.admin_user, "not_called", code,
                                 detail, NoId)
            /\ inflight' = [inflight EXCEPT ![h] = NoCall]
            /\ UNCHANGED <<authVars, prodVars, orders, retVars, payVars>>
    IN
    /\ c.call = "admin_action"
    /\ UNCHANGED attempts
    /\ c.stage = "find_one"
    /\ IF c.action = "approve" THEN
         IF AlreadyProcessed(req)
         THEN Fail(400, "Already processed")
         ELSE IF req.razorpay_payment_id = NONE \/ req.refund_amount = 0
         THEN Fail(400, "Payment id or amount missing; cannot refund")
         ELSE /\ outcome # "unconfigured" => gwRefundCalls < MaxRefundCalls
              /\ gwRefundCalls' = IF outcome = "unconfigured" THEN gwRefundCalls
                                  ELSE gwRefundCalls + 1
              /\ refunds' = IF outcome = "ok"
                            THEN Append(refunds,
                                   [ id |-> Len(refunds) + 1,
                                     payment_id |-> req.razorpay_payment_id,
                                     amount |-> req.refund_amount ])
                            ELSE refunds
              /\ UNCHANGED <<authVars, prodVars, orders, return_requests, tasks, payVars>>
              /\ IF CallRaised(outcome)
                 THEN /\ resp' = AdminResp(c.action, c.request_id, c.admin_user, outcome, 500,
                                           "Refund failed", NoId)
                      /\ inflight' = [inflight EXCEPT ![h] = NoCall]
                 ELSE /\ inflight' = [inflight EXCEPT ![h] =
                             [c EXCEPT !.stage = "call_razorpay_refund",
                                       !.refund_id = Len(refunds) + 1]]
                      /\ resp' = Suspended(h, outcome)
       ELSE IF c.action = "reject" THEN
         IF ~Rejectable(req)
         THEN Fail(400, "Cannot reject processed request")
         ELSE /\ return_requests' = [return_requests EXCEPT ![c.request_id].status = "rejected"]
              /\ tasks' = Append(tasks,
                     [ task |-> "send_rejection_email", to |-> req.customer_email,
                       request_id |-> c.request_id ])
              /\ resp' = AdminResp(c.action, c.request_id, c.admin_user, "not_called", 200,
                                   "ok", NoId)
              /\ inflight' = [inflight EXCEPT ![h] = NoCall]
              /\ UNCHANGED <<authVars, prodVars, orders, refunds, gwRefundCalls, payVars>>
       ELSE Fail(400, "Unknown action")

\* after the gateway call returned: update_one, add_task, the response.
\* update_one is awaited outside any try block: when the database raises, the
\* exception ends the request with a 500 and nothing is stored
admin_action_update(h, db) ==
    LET c == inflight[h] IN
    /\ c.call = "admin_action"
    /\ UNCHANGED attempts
    /\ c.stage = "call_razorpay_refund"
    /\ inflight' = [inflight EXCEPT ![h] = NoCall]
    /\ UNCHANGED <<authVars, prodVars, orders, refunds, gwRefundCalls, payVars>>
    /\ IF db = "ok"
       THEN /\ return_requests' = [return_requests EXCEPT ![c.request_id] =
                   [@ EXCEPT !.status = "refunded", !.razorpay_refund_id = c.refund_id]]
            /\ tasks' = Append(tasks,
                   [ task |-> "send_refund_email", to |-> c.req.customer_email,
                     request_id |-> c.request_id ])
            /\ resp' = AdminResp(c.action, c.request_id, c.admin_user, "ok", 200, "ok",
                                 c.refund_id)
       ELSE /\ resp' = AdminResp(c.action, c.request_id, c.admin_user, "ok", 500,
                                 "Internal Server Error", NoId)
            /\ UNCHANGED <<return_requests, tasks>>

\* create_return_request runs while no admin call is suspended on its result
CreateReturnIdle ==
    /\ \A h \in Handlers : inflight[h] = NoCall
    /\ CreateReturn

AdminFind ==
    \E h \in Handlers, i \in 1..MaxReturns, a \in {"approve", "reject"},
       u \in AdminCallers :
        admin_action_find(h, i, a, u)

AdminChecks ==
    \E h \in Handlers, out \in GatewayOutcomes : admin_action_checks(h, out)

AdminUpdate == \E h \in Handlers, db \in {"ok", "update_failed"} : admin_action_update(h, db)

\* the overlap of handlers is looked at with the database answering
AdminUpdateOk == \E h \in Handlers : admin_action_update(h, "ok")

NextRace == CreateReturnIdle \/ AdminFind \/ AdminChecks \/ AdminUpdateOk

\* the race is looked at on the seeded order that admits a return request
InitRace ==
    /\ InitReturns
    /\ orders = [o \in OrderIds |->
                    SeedOrder(CustomerEmail, "delivered", BaseItems, "pay_test_1234567890")]

SpecRace == InitRace /\ [][NextRace]_vars

\* C23: the at-most-once guard is a check-then-act on the status read by
\* find_one. A handler that read the request as pending (with a payment id and
\* an amount) goes on to invoke the gateway refund when it resumes, whatever
\* the stored status has become meanwhile; so two approve actions that both
\* read the status before either writes it both invoke the gateway.
ReadPending(h) ==
    /\ inflight[h].call = "admin_action"
    /\ inflight[h].stage = "find_one"
    /\ inflight[h].action = "approve"
    /\ inflight[h].req.status = "pending"
    /\ inflight[h].req.razorpay_payment_id # NONE
    /\ inflight[h].req.refund_amount # 0

C23_RefundGuardRaces ==
    [][ \A h \in Handlers :
          (ReadPending(h) /\ inflight'[h] # inflight[h]) =>
              /\ resp'.gateway # "not_called"
              /\ resp'.gateway # "unconfigured" => gwRefundCalls' = gwRefundCalls + 1 ]_vars

\* both overlapping approvals were refunded by the gateway for one request
C23_Witness ==
    /\ Len(return_requests) = 1
    /\ Len(refunds) = 2
    /\ gwRefundCalls = 2
    /\ return_requests[1].status = "refunded"
    /\ \A h \in Handlers : inflight[h] = NoCall

\* ---------------------------------------------------------------------
\* The status update in a shop with several orders: which fields it writes
\* ---------------------------------------------------------------------

\* the tracking fields a request carries: none, the link alone, all three
TrackingPayloads ==
    { [tracking_url |-> NONE, tracking_id |-> NONE, courier_name |-> NONE],
      [tracking_url |-> "https://track.example/1", tracking_id |-> NONE,
       courier_name |-> NONE],
      [tracking_url |-> "https://track.example/2", tracking_id |-> "AWB1",
       courier_name |-> "BlueDart"] }

PlaceCustomerOrder == create_order(CustomerEmail, BaseItems, 49900, "ok")

UpdateOrderTracking ==
    \E key \in OrderKeys, status \in {"PROCESSING", "DELIVERED"}, t \in TrackingPayloads :
        update_order_status(key, status, t.tracking_url, t.tracking_id, t.courier_name)

NextStatus == PlaceCustomerOrder \/ UpdateOrderTracking

\* the shop holds an order of the seeding script before the first new order
InitStatus ==
    /\ orders = [o \in OrderIds |->
                    SeedOrder(CustomerEmail, "delivered", BaseItems, "pay_test_1234567890")]
    /\ inflight = NoCalls
    /\ attempts = << >>
    /\ return_requests = << >>
    /\ refunds = << >>
    /\ gwRefundCalls = 0
    /\ tasks = << >>
    /\ gwOrders = << >>
    /\ payments = << >>
    /\ IdleAuth
    /\ IdleProducts
    /\ resp = NoResp

SpecStatus == InitStatus /\ [][NextStatus]_vars

\* C24: update_order_status on an existing order answers 200 whatever the
\* order's status and stores the supplied status string as it is; each of
\* tracking_url, tracking_id and courier_name takes the supplied value when
\* one is supplied and keeps its value otherwise; every other field of the
\* order and every other order stay as they were. For a key that matches no
\* order the answer is 404, no order changes and no notification is scheduled.
C24_StatusUpdateFrame ==
    [][ resp'.op = "update_order_status" =>
          LET r == resp' IN
          IF OrdersMatching(r.key) = {}
          THEN /\ r.code = 404
               /\ orders' = orders
               /\ tasks' = tasks
          ELSE /\ r.code = 200
               /\ DOMAIN orders' = DOMAIN orders
               /\ \E o \in OrdersMatching(r.key) :
                    /\ orders'[o] =
                         [orders[o] EXCEPT
                            !.status = r.status,
                            !.tracking_url = IF r.tracking_url = NONE THEN @
                                             ELSE r.tracking_url,
                            !.tracking_id = IF r.tracking_id = NONE THEN @
                                            ELSE r.tracking_id,
                            !.courier_name = IF r.courier_name = NONE THEN @
                                             ELSE r.courier_name]
                    /\ \A p \in DOMAIN orders \ {o} : orders'[p] = orders[p] ]_vars

\* an update without tracking fields has been stored on an order that keeps
\* the tracking fields of an earlier update, next to an order never updated
C24_Witness ==
    /\ resp.op = "update_order_status"
    /\ resp.code = 200
    /\ resp.tracking_url = NONE
    /\ resp.before = "DELIVERED"
    /\ \E o \in OrdersMatching(resp.key) :
          /\ orders[o].status = "PROCESSING"
          /\ orders[o].tracking_id = "AWB1"
          /\ orders[o].courier_name = "BlueDart"
          /\ \E p \in DOMAIN orders \ {o} : orders[p].status = "PENDING_PAYMENT"

\* ---------------------------------------------------------------------
\* Background tasks: the mails add_task scheduled run after the response of
\* the request that scheduled them has been sent, one after another
\* ---------------------------------------------------------------------

OrderMailTasks ==
    { "send_order_shipped_email_customer", "send_order_delivered_email_customer",
      "send_order_cancelled_email_customer" }

\* how one run of an order mail ends: delivered; SMTP_USER or SMTP_PASS unset
\* (return); smtplib raised (caught and printed in _send_blocking); or
\* render_email raised (the exception leaves the task)
MailOutcomes == {"sent", "no_credentials", "smtp_error", "render_error"}

\* the task the runner takes next: each scheduled task once, in order
NextTaskMut ==
    IF attempts # << >> /\ attempts[Len(attempts)].outcome # "sent"
    THEN attempts[Len(attempts)].task
    ELSE Len(attempts) + 1
NextTask == Len(attempts) + 1

run_background_task(outcome) ==
    /\ NextTask <= Len(tasks)
    /\ tasks[NextTask].task \in OrderMailTasks
    /\ attempts' = Append(attempts, [task |-> NextTask, outcome |-> outcome])
    /\ UNCHANGED <<inflight, authVars, prodVars, orders, retVars, payVars, resp>>

SendMail == \E outcome \in MailOutcomes : run_background_task(outcome)

PlaceMailedOrder ==
    /\ Cardinality(DOMAIN orders) < MaxOrders
    /\ PlaceCustomerOrder

UpdateMailedOrder ==
    \E key \in OrderKeys, status \in {"PROCESSING", "DELIVERED"} :
        update_order_status(key, status, NONE, NONE, NONE)

NextMail == PlaceMailedOrder \/ UpdateMailedOrder \/ SendMail

SpecMail == InitPay /\ [][NextMail]_vars

\* C25: a run of an order-status mail, however it ends, leaves the orders
\* (the new status included), the response of the update and the scheduled
\* tasks as they are, and it is the only run of that task: a failed send is
\* not tried again.
C25_MailFailureIsolated ==
    [][ attempts' # attempts =>
          /\ Len(attempts') = Len(attempts) + 1
          /\ orders' = orders
          /\ resp' = resp
          /\ tasks' = tasks
          /\ \A j \in 1..Len(attempts) :
                attempts[j].task # attempts'[Len(attempts')].task ]_vars

\* the mail of a DELIVERED update failed in rendering and a later mail was
\* run; the order is still DELIVERED and the update's answer is the 200
C25_Witness ==
    /\ Len(attempts) = 2
    /\ attempts[1].outcome = "render_error"
    /\ tasks[1].task = "send_order_delivered_email_customer"
    /\ attempts[2].outcome = "smtp_error"
    /\ resp.op = "update_order_status"
    /\ resp.code = 200
    /\ \E o \in DOMAIN orders : orders[o].status = "DELIVERED"

\* ---------------------------------------------------------------------
\* Admin actions one after another: a handler starts only when no other
\* handler is suspended
\* ---------------------------------------------------------------------

AdminFindAlone ==
    /\ \A h \in Handlers : inflight[h] = NoCall
    /\ AdminFind

NextSeq == CreateReturnIdle \/ AdminFindAlone \/ AdminChecks \/ AdminUpdate

SpecSeq == InitRace /\ [][NextSeq]_vars

\* the refunds the gateway executed with the payment id and amount of a request
RefundsOf(req) ==
    { k \in 1..Len(refunds) :
        /\ refunds[k].payment_id = req.razorpay_payment_id
        /\ refunds[k].amount = req.refund_amount }

\* C26: when admin actions on a return request do not overlap, the gateway
\* executes at most one refund for the request, however approve is retried
\* after failed actions and however approve and reject are ordered.
C26_RefundAtMostOnce ==
    \A i \in 1..Len(return_requests) : Cardinality(RefundsOf(return_requests[i])) <= 1

\* ---------------------------------------------------------------------
\* Several return requests on one order
\* ---------------------------------------------------------------------

CreateReturnAgain ==
    \E o \in OrderIds, p \in ProductIds, u \in CurrentUsers :
        /\ create_return_request(o, p, u)
        /\ Len(return_requests') <= MaxReturns + 1

NextItem == CreateReturnAgain \/ AdminAct

SpecItem == InitRace /\ [][NextItem]_vars

\* paise refunded through the first n return requests for one line item
RECURSIVE RefundedTotal(_, _, _)
RefundedTotal(n, order_id, product_id) ==
    IF n = 0 THEN 0
    ELSE LET req == return_requests[n] IN
         RefundedTotal(n - 1, order_id, product_id)
         + (IF /\ req.order_id = order_id
               /\ req.product_id = product_id
               /\ req.status = "refunded"
            THEN req.refund_amount ELSE 0)

\* C27: for every line item of every order, the amount refunded over all
\* return requests for that order and product is at most the item's price;
\* a further return request for a line item already returned leads to no
\* second refund.
C27_LineItemRefundBounded ==
    \A o \in DOMAIN orders :
        \A k \in DOMAIN orders[o].items :
            RefundedTotal(Len(return_requests), o, orders[o].items[k].product_id)
                <= orders[o].items[k].price

\* ---------------------------------------------------------------------
\* reset_password as the event loop runs it: the coroutine gives up control
\* at await find_one and at await update_one
\* ---------------------------------------------------------------------

\* up to the first await: the payload check, the clock, find_one
reset_password_find(h, token, new_password) ==
    LET token_hash == _hash_token(token)
        now_ts == now
        hits == {i \in DOMAIN users :
                    /\ users[i].password_reset.token_hash = token_hash
                    /\ users[i].password_reset.expires_at >= now_ts}
    IN  /\ inflight[h] = NoCall
        /\ UNCHANGED <<attempts, shopVars, authVars, prodVars>>
        /\ IF Len(new_password) < 8
           THEN /\ resp' = ResetResp("reset_password", token, new_password, 422,
                                     "string_too_short", 0)
                /\ UNCHANGED inflight
           ELSE IF hits = {}
           THEN /\ resp' = ResetResp("reset_password", token, new_password, 400,
                                     "Invalid or expired token", 0)
                /\ UNCHANGED inflight
           ELSE /\ inflight' = [inflight EXCEPT ![h] =
                       [ call |-> "reset_password", stage |-> "find_one", token |-> token,
                         new_password |-> new_password, user |-> SetMin(hits),
                         now_ts |-> now_ts ]]
                /\ resp' = Suspended(h, "not_called")

\* from find_one's answer on: the hash, update_one on the _id read, the response
reset_password_update(h) ==
    LET c == inflight[h]
        i == c.user
    IN  /\ c.call = "reset_password"
        /\ c.stage = "find_one"
        /\ users' = [users EXCEPT
               ![i].hashed_password = BcryptHash(c.new_password),
               ![i].password_changed_at = c.now_ts,
               ![i].refresh_tokens = {},
               ![i].password_reset = NoReset]
        /\ stale' = stale \cup TokensOf(users[i])
        /\ resp' = ResetResp("reset_password", c.token, c.new_password, 200,
                             "Password has been reset successfully.", i)
        /\ inflight' = [inflight EXCEPT ![h] = NoCall]
        /\ UNCHANGED <<attempts, shopVars, prodVars, now, issued, nextJti, nextReset>>

ResetFind ==
    \E h \in Handlers, tk \in 1..(MaxResets + 1), p \in NewPasswords :
        reset_password_find(h, tk, p)

ResetUpdate == \E h \in Handlers : reset_password_update(h)

NextResetRace == Forgot \/ ResetFind \/ ResetUpdate \/ Tick

SpecResetRace == InitAuth /\ [][NextResetRace]_vars

\* C28: every successful reset-password redeems a token that is stored on
\* the user at that moment and whose expiry is not before the time of the
\* reset, so a token is redeemed at most once and never after its expiry,
\* also when two requests carry the same token at the same time; after the
\* reset the user has no stored reset token and no refresh tokens.
C28_ResetTokenOnce ==
    [][ (resp'.op = "reset_password" /\ resp'.code = 200) =>
          LET i == resp'.user IN
          /\ users[i].password_reset.token_hash = _hash_token(resp'.token)
          /\ users[i].password_reset.expires_at >= users'[i].password_changed_at
          /\ users'[i].password_reset = NoReset
          /\ users'[i].refresh_tokens = {} ]_vars

\* ---------------------------------------------------------------------
\* From checkout to a return: create-order, verify, the admin's status
\* updates, then the customer's return request
\* ---------------------------------------------------------------------

\* the customer names the order by the db_order_id that create-order returned
CreateReturnPlaced ==
    \E o \in {StrNone, "missing"}, p \in ProductIds, u \in CurrentUsers :
        /\ create_return_request(o, p, u)
        /\ Len(return_requests') <= MaxReturns

NextLifecycle == PlaceMailedOrder \/ VerifyPayment \/ UpdateMailedOrder \/ CreateReturnPlaced

SpecLifecycle == InitPay /\ [][NextLifecycle]_vars

\* the order placed through create-order is paid and DELIVERED, carries the
\* email, and has the product as a line item with a positive price
PlacedDelivered(email, product_id) ==
    /\ NullId \in DOMAIN orders
    /\ orders[NullId].email = email
    /\ orders[NullId].razorpay_payment_id # NONE
    /\ orders[NullId].status = "DELIVERED"
    /\ \E k \in DOMAIN orders[NullId].items :
          /\ orders[NullId].items[k].product_id = product_id
          /\ orders[NullId].items[k].price > 0

\* C29: once an order created through /payment/create-order has been paid
\* through /payment/verify and moved to DELIVERED by the admin, a return
\* request for it by the customer whose email is on the order, for one of its
\* line items with a positive price, is accepted (201).
C29_DeliveredOrderReturnable ==
    [][ ( /\ resp'.op = "create_return_request"
          /\ resp'.order_id = StrNone
          /\ PlacedDelivered(resp'.email, resp'.product_id) )
        => resp'.code = 201 ]_vars

\* ---------------------------------------------------------------------
\* Registration with a database that can refuse the insert
\* ---------------------------------------------------------------------

RegisterUserDb ==
    \E e \in {NewEmail, AdminEmail}, p \in PwInputs, db \in {"ok", "insert_failed"} :
        register_user(AdminToken, e, p, db)

NextRegister == RegisterUserDb \/ LoginPw

SpecRegister == InitPw /\ [][NextRegister]_vars

\* C30: register_user answers with a created user only if the record was
\* inserted: a 200 reply means the users collection has gained a document
\* with the email of the request; when the insert fails the caller gets an
\* error.
C30_RegisterReportsInsert ==
    [][ (RegisterStep /\ resp'.code = 200) =>
          /\ Len(users') = Len(users) + 1
          /\ users'[Len(users')].email = resp'.email ]_vars

====
